---- MODULE Spec2Model ----
(***************************************************************************)
(* Model of the total-usage handler (getTotalUsage, src/clusterUsage.go):  *)
(* scope resolution, inventory filter, semaphore-bounded fan-out of one    *)
(* goroutine per in-scope VM, and the response.                            *)
(*                                                                         *)
(* float64 values are modelled as integers counting 1/1024ths (1.5 cores   *)
(* = 1536, 2048 MB = 2048 * 1024), so that memMB / 1024.0 is the integer   *)
(* quotient by 1024 and is exact for whole-MB samples.  A sum is rounded   *)
(* as float64 rounds it, to the nearest value of MantissaBits significant  *)
(* bits, ties to even; the model's floats carry fewer bits than the 53 of  *)
(* float64, so the rounding shows on small numbers.                        *)
(***************************************************************************)
EXTENDS Integers, Sequences, FiniteSets, TLC

VARIABLES
    pc,                 \* position of the request goroutine in getTotalUsage
    ctxErr,             \* ctx.Err() != nil (deadline passed or client gone)
    domainNames,        \* result of LoadDomainNames
    idx,                \* index of the next domain of the resolve loop
    projectToDomain,    \* map projectID -> domainName
    usageErrors,        \* []UsageError
    errMu,              \* holder of errMu (0 = unlocked)
    mu,                 \* holder of mu (0 = unlocked)
    totalCPUCoresUsed,
    totalRAMUsedGB,
    totalVMs,
    instances,          \* result of GetAllInstances
    targets,            \* []instanceWithDomain
    semaphore,          \* number of elements in the buffered channel
    wg,                 \* WaitGroup counter
    tpc,                \* position of each per-VM goroutine
    ctxSeen,            \* per goroutine: outcome of its ctx.Err() check
    cpuRes,             \* per goroutine: (measures, err) of the vcpus call
    memRes,             \* per goroutine: (memMeasures, err) of the memory call
    status,             \* HTTP status written (0 = nothing written yet)
    written,            \* number of responses written to w
    response,           \* what was written: nothing, an error text, a TotalUsage
    cpuAdds,            \* history: per instance id, additions to totalCPUCoresUsed
    memAdds,            \* history: per instance id, additions to totalRAMUsedGB
    domRes,             \* history: per domain of the loop, (projects, err) of its call
    guards,             \* history: per accumulator variable, the locks its writers held
    apiBearerToken,     \* os.Getenv("API_BEARER_TOKEN"), as a sequence of characters
    redisClient,        \* the global redisClient: "nil" or "up"
    redisStore,         \* what Redis holds under cacheKey, with its remaining TTL
    spc,                \* position of the server in serving one request
    req,                \* the request being served: route and Authorization header
    reply,              \* the response written to it: status, writer, body
    invoked,            \* the handler the router has invoked for the request
    served,             \* number of requests answered
    now,                \* the clock (time.Now())
    seen,               \* history: redisStore as it was when the request arrived
    fetches,            \* history: Nova calls made for the request
    cached,             \* what the last getCachedClusterUsage call returned
    cacheOp,            \* history: the last cache call and how Redis answered it
    adminProjectID,     \* the package variable adminProjectID of auth.go
    rpc,                \* per concurrent request: its position in getTotalUsage
    tokenProject,       \* per concurrent request: the project id of its token response
    logged,             \* per concurrent request: adminProjectID as its log line read it
    samples,            \* per concurrent request: the samples its goroutines still add
    given,              \* history: per concurrent request, the samples of its VMs
    rtotal,             \* per concurrent request: its local totalCPUCoresUsed
    rreply,             \* per concurrent request: the status and total it answered
    token,              \* VHIPanelClient.token
    cookies,            \* VHIPanelClient.cookies, by name
    grafanaCookies,     \* VHIPanelClient.grafanaCookies, by name
    ppc,                \* position of the caller in doAuthGet / doGrafanaGet
    pkind,              \* which of the two helpers is running
    attempt,            \* the loop variable of the helper
    ptrace,             \* history: the HTTP requests of the call, with their outcome
    presult,            \* what the call returned
    pcalls,             \* number of calls made on the client
    hyperStats,         \* getClusterUsage: what GetHypervisorStats returned
    servers,            \* getClusterUsage: what ListAllServers returned
    figures,            \* getClusterUsage: the ClusterUsage it encodes
    called,             \* the function of billing.go that was called, if any
    cpuMeasures,        \* CalculateCPUUsage: its argument measures
    numVCPUs,           \* CalculateCPUUsage: its argument numVCPUs
    cpuUsage,           \* CalculateCPUUsage: the CPUUsageStats it returned
    usageMeasures,      \* CalculateMemoryUsage: its argument usageMeasures
    totalMeasures,      \* CalculateMemoryUsage: its argument totalMeasures
    memUsage            \* CalculateMemoryUsage: the MemoryUsageStats it returned

\* the state of main.go's server: configuration, router, middleware, cache
\* the return value and the trace of the functions of cache.go
cacheVars == <<cached, cacheOp>>

\* the requests for the total usage that are served at the same time
concVars == <<adminProjectID, rpc, tokenProject, logged, samples, given, rtotal,
              rreply>>

\* the singleton panel client of vhi_panel.go and the call in progress on it
panelVars == <<token, cookies, grafanaCookies, ppc, pkind, attempt, ptrace, presult,
               pcalls>>

\* the state of the library code that the handlers above do not touch
\* the inputs and the result of the arithmetic of getClusterUsage
figureVars == <<hyperStats, servers, figures>>

\* the arguments and the results of the functions of billing.go
billingVars == <<called, cpuMeasures, numVCPUs, cpuUsage, usageMeasures, totalMeasures,
                 memUsage>>

libVars == <<panelVars, figureVars, billingVars>>

serverVars == <<apiBearerToken, redisClient, redisStore, spc, req, reply, invoked,
                served, now, seen, fetches, cacheVars>>

vars == <<pc, ctxErr, domainNames, idx, projectToDomain, usageErrors, errMu, mu,
          totalCPUCoresUsed, totalRAMUsedGB, totalVMs, targets, semaphore, wg,
          tpc, ctxSeen, cpuRes, memRes, status, written, response,
          cpuAdds, memAdds, domRes, instances, guards, serverVars, concVars,
          libVars>>

----------------------------------------------------------------------------
(* Program constants *)

SemCap == 10            \* make(chan struct{}, 10)
MBPerGB == 1024         \* memGB := memMB / 1024.0
DefaultTTL == 60        \* return 60 * time.Second
MaxAttempts == 2        \* for attempt := 0; attempt < 2; attempt++

(* Bounds of the model *)

MaxDomains == 2         \* longest configured domain list
MaxVMs == 2             \* number of known instances of the aggregation runs
FanVMs == 11            \* inventory of the saturating fan-out run
MaxRequests == 2        \* requests the server answers
MaxTime == 3            \* last tick of the clock
MaxCalls == 3           \* calls made on the panel client
MaxServers == 2         \* longest server list of the cluster
MaxMeasures == 3        \* longest series of measures
PercentBits == 13       \* significant bits of the floats of billing.go
MantissaBits == 12      \* significant bits of the model's floats

----------------------------------------------------------------------------
(* Inputs: what the collaborators may return *)

DomainFile == <<"d1", "d2", "d3", "d4">>
Projects == {"p1", "p2"}
MetricSets == SUBSET {"vcpus", "memory"}

\* the configured list: the first k lines of the file, k = 0 an empty file
DomainLists == {SubSeq(DomainFile, 1, k) : k \in 0..MaxDomains}

\* the projects of a domain: none, one, or both (p1 may be claimed twice)
ProjectLists == {{}, {"p1"}, {"p1", "p2"}}

Instance(i, p, m) == [ID |-> i, ProjectID |-> p, Metrics |-> m]

\* the instances known to Gnocchi: instance k belongs to p1 (k odd) or p2
\* (k even) and has both metrics, vcpus only, memory only or none (k mod 4)
KnownInstance(k) ==
    Instance(k,
             IF k % 2 = 1 THEN "p1" ELSE "p2",
             IF k % 4 = 1 THEN {"vcpus", "memory"}
             ELSE IF k % 4 = 2 THEN {"vcpus"}
             ELSE IF k % 4 = 3 THEN {"memory"}
             ELSE {})

\* the instances with their id in S, in ascending order of id
RECURSIVE Listing(_)
Listing(S) ==
    IF S = {} THEN <<>>
    ELSE LET k == CHOOSE x \in S : \A y \in S : x <= y
         IN <<KnownInstance(k)>> \o Listing(S \ {k})

\* inventories: any selection of the first MaxVMs known instances
Inventories == {Listing(S) : S \in SUBSET (1..MaxVMs)}

\* the saturating run: one domain holding both projects and FanVMs instances
\* that have no metric yet, so that every goroutine only takes and returns
\* its permit
FanDomainLists == {<<"d1">>}
FanProjectLists == {{"p1", "p2"}}
FanInventories == {[i \in 1..FanVMs |-> KnownInstance(4 * i)]}

\* the contended run: one goroutine more than the semaphore has permits, two
\* of them with a vcpus key (and so with calls to make and mutexes to take),
\* the others with no metric; the vcpus call of the first VM can only fail
ContendInventories ==
    {[i \in 1..(SemCap + 1) |-> KnownInstance(IF i <= 2 THEN 4 * i - 2 ELSE 4 * i)]}
ContendCpuMeasures(i) == IF i = 1 THEN {} ELSE {<<2048>>}

\* the run over instances that lack a metric key: vcpus only, memory only,
\* neither
KeyInventories == {Listing(S) : S \in SUBSET {2, 3, 4}}

\* sample sequences ([]MetricMeasure, values only), oldest first
CpuMeasures == {<<>>, <<1024, 1536>>, <<2048>>}
MemMeasures == {<<>>, <<1024 * 1024, 2048 * 1024>>}

\* the run in which sums round: three instances with both keys, listed in
\* any order, and samples of 4.0 and of 1/1024 (cores, GB)
RECURSIVE Orderings(_)
Orderings(S) ==
    IF S = {} THEN {<<>>}
    ELSE UNION {{<<KnownInstance(k)>> \o o : o \in Orderings(S \ {k})} : k \in S}
OrderInventories == Orderings({1, 5, 9})
OrderCpuMeasures == {<<4096>>, <<1>>}
OrderMemMeasures == {<<4096 * 1024>>, <<1024>>}

----------------------------------------------------------------------------
(* Helpers *)

\* what a call returns: (value, nil) or (nil, err)
Failed == [ok |-> FALSE]
Ok(v) == [ok |-> TRUE, val |-> v]
Returns(vals) == {Failed} \cup {Ok(v) : v \in vals}
NotCalled == [ok |-> FALSE, called |-> FALSE]

UsageError(d, i, p, e) ==
    [DomainName |-> d, InstanceID |-> i, ProjectID |-> p, Error |-> e]

Last(s) == s[Len(s)]

RECURSIVE Pow2(_)
Pow2(n) == IF n = 0 THEN 1 ELSE 2 * Pow2(n - 1)

\* the distance between neighbouring floats around x
RECURSIVE Ulp(_)
Ulp(x) == IF x < Pow2(MantissaBits) THEN 1 ELSE 2 * Ulp(x \div 2)

\* x rounded to the nearest float, ties to the even mantissa
RoundToEven(x) ==
    LET q == Ulp(x)
        down == x - (x % q)
        up == down + q
    IN IF 2 * (x % q) < q THEN down
       ELSE IF 2 * (x % q) > q THEN up
       ELSE IF (down \div q) % 2 = 0 THEN down ELSE up

\* a + b on float64 (non-negative operands)
FloatAdd(a, b) == RoundToEven(a + b)

\* faulty variant: the map read without its ok: a missing key reads as ""
FilterTargets_NoOkCheck(insts, p2d) ==
    [k \in 1..Len(insts) |->
        [Instance |-> insts[k],
         DomainName |-> IF insts[k].ProjectID \in DOMAIN p2d
                        THEN p2d[insts[k].ProjectID] ELSE ""]]

\* faulty variant: the test on ok inverted (a missing key reads as "")
RECURSIVE FilterTargets_Inverted(_, _)
FilterTargets_Inverted(insts, p2d) ==
    IF insts = <<>> THEN <<>>
    ELSE LET inst == Head(insts)
             rest == FilterTargets_Inverted(Tail(insts), p2d)
         IN IF inst.ProjectID \notin DOMAIN p2d
            THEN <<[Instance |-> inst, DomainName |-> ""]>> \o rest
            ELSE rest

\* for _, inst := range instances { if domainName, ok := projectToDomain[...]; ok }
RECURSIVE FilterTargets(_, _)
FilterTargets(insts, p2d) ==
    IF insts = <<>> THEN <<>>
    ELSE LET inst == Head(insts)
             rest == FilterTargets(Tail(insts), p2d)
         IN IF inst.ProjectID \in DOMAIN p2d
            THEN <<[Instance |-> inst, DomainName |-> p2d[inst.ProjectID]]>> \o rest
            ELSE rest

TaskIds == DOMAIN tpc

Init ==
    /\ pc = "load"
    /\ ctxErr = FALSE
    /\ domainNames = <<>>
    /\ idx = 1
    /\ projectToDomain = <<>>
    /\ usageErrors = <<>>
    /\ errMu = 0
    /\ mu = 0
    /\ totalCPUCoresUsed = 0
    /\ totalRAMUsedGB = 0
    /\ totalVMs = 0
    /\ instances = <<>>
    /\ targets = <<>>
    /\ semaphore = 0
    /\ wg = 0
    /\ tpc = <<>>
    /\ ctxSeen = <<>>
    /\ cpuRes = <<>>
    /\ memRes = <<>>
    /\ status = 0
    /\ written = 0
    /\ response = [kind |-> "none"]
    /\ cpuAdds = <<>>
    /\ memAdds = <<>>
    /\ domRes = <<>>
    /\ guards = [cpu |-> {}, ram |-> {}, errors |-> {}]
    /\ apiBearerToken = <<>>
    /\ redisClient = "nil"
    /\ redisStore = [present |-> FALSE]
    /\ spc = "boot"
    /\ req = [route |-> "none", auth |-> <<>>]
    /\ reply = [status |-> 0, by |-> "none", body |-> [kind |-> "none"]]
    /\ invoked = "none"
    /\ served = 0
    /\ now = 1
    /\ seen = [present |-> FALSE]
    /\ fetches = 0
    /\ cached = [hit |-> FALSE]
    /\ cacheOp = [op |-> "none"]
    /\ adminProjectID = ""
    /\ rpc = [r \in 1..MaxRequests |-> "idle"]
    /\ tokenProject = [r \in 1..MaxRequests |-> ""]
    /\ logged = [r \in 1..MaxRequests |-> ""]
    /\ samples = [r \in 1..MaxRequests |-> <<>>]
    /\ given = [r \in 1..MaxRequests |-> <<>>]
    /\ rtotal = [r \in 1..MaxRequests |-> 0]
    /\ rreply = [r \in 1..MaxRequests |-> [status |-> 0]]
    /\ token = ""
    /\ cookies = <<>>
    /\ grafanaCookies = <<>>
    /\ ppc = "start"
    /\ pkind = "none"
    /\ attempt = 0
    /\ ptrace = <<>>
    /\ presult = [kind |-> "none"]
    /\ pcalls = 0
    /\ hyperStats = [fetched |-> FALSE]
    /\ servers = <<>>
    /\ figures = [kind |-> "none"]
    /\ called = "none"
    /\ cpuMeasures = <<>>
    /\ numVCPUs = 1
    /\ cpuUsage = [TotalDataPoints |-> 0, UsageByHour |-> <<>>, UsageByDay |-> <<>>]
    /\ usageMeasures = <<>>
    /\ totalMeasures = <<>>
    /\ memUsage = [TotalMemoryMB |-> 0, UsageByDay |-> <<>>]

----------------------------------------------------------------------------
(* The request goroutine *)

\* faulty variant: http.Error without the return that follows it
Abort_NoReturn(code) ==
    /\ status' = code
    /\ written' = written + 1
    /\ response' = [kind |-> "error"]
    /\ pc' = pc

\* http.Error(w, ..., code); return
Abort(code) ==
    /\ status' = code
    /\ written' = written + 1
    /\ response' = [kind |-> "error"]
    /\ pc' = "done"

\* domainNames, err := LoadDomainNames(domainFile), and the two checks on it
LoadDomainNames(lists) ==
    /\ pc = "load"
    /\ \E r \in Returns(lists) :
          IF ~r.ok
          THEN Abort(500) /\ UNCHANGED domainNames
          ELSE IF Len(r.val) = 0
          THEN Abort(400) /\ UNCHANGED domainNames
          ELSE /\ domainNames' = r.val
               /\ pc' = "auth"
               /\ UNCHANGED <<status, written, response>>
    /\ UNCHANGED <<ctxErr, idx, projectToDomain, usageErrors, errMu, mu,
                   totalCPUCoresUsed, totalRAMUsedGB, totalVMs, targets,
                   semaphore, wg, tpc, ctxSeen, cpuRes, memRes, cpuAdds, memAdds, domRes, instances, concVars, serverVars, libVars, guards>>

\* adminToken, err := GetAdminToken(ctx)
GetAdminToken ==
    /\ pc = "auth"
    /\ \E ok \in BOOLEAN :
          IF ok
          THEN pc' = "resolve" /\ UNCHANGED <<status, written, response>>
          ELSE Abort(401)
    /\ UNCHANGED <<ctxErr, domainNames, idx, projectToDomain, usageErrors, errMu,
                   mu, totalCPUCoresUsed, totalRAMUsedGB, totalVMs, targets,
                   semaphore, wg, tpc, ctxSeen, cpuRes, memRes, cpuAdds, memAdds, domRes, instances, concVars, serverVars, libVars, guards>>

\* faulty variant: the append made without errMu
AppendLocked_NoLock(e) ==
    /\ usageErrors' = Append(usageErrors, e)
    /\ guards' = [guards EXCEPT !.errors = @ \cup {{}}]
    /\ errMu' = errMu

\* errMu.Lock(); usageErrors = append(usageErrors, e); errMu.Unlock()
\* by the request goroutine (no other goroutine exists yet)
AppendLocked(e) ==
    /\ errMu = 0
    /\ usageErrors' = Append(usageErrors, e)
    /\ guards' = [guards EXCEPT !.errors = @ \cup {{"errMu"}}]
    /\ errMu' = errMu

\* where the loop goes after the domain at idx
AfterDomain == IF idx < Len(domainNames) THEN "resolve" ELSE "inventory"

\* faulty variant: a failed or empty domain ends the loop (break for continue)
ResolveDomain_BreakOnError(results) ==
    /\ pc = "resolve"
    /\ LET domainName == domainNames[idx] IN
       IF ctxErr
       THEN /\ AppendLocked(UsageError(domainName, 0, "", "ctx_domain"))
            /\ domRes' = Append(domRes, NotCalled)
            /\ pc' = "inventory"
            /\ UNCHANGED <<idx, projectToDomain>>
       ELSE \E r \in Returns(results) :
            /\ IF ~r.ok
               THEN /\ AppendLocked(UsageError(domainName, 0, "", "list_projects"))
                    /\ pc' = "inventory"
                    /\ UNCHANGED projectToDomain
               ELSE IF r.val = {}
               THEN /\ AppendLocked(UsageError(domainName, 0, "", "no_projects"))
                    /\ pc' = "inventory"
                    /\ UNCHANGED projectToDomain
               ELSE /\ projectToDomain' =
                          [p \in DOMAIN projectToDomain \cup r.val |->
                              IF p \in r.val THEN domainName ELSE projectToDomain[p]]
                    /\ pc' = AfterDomain
                    /\ UNCHANGED <<usageErrors, errMu, guards>>
            /\ domRes' = Append(domRes, r)
            /\ idx' = idx + 1
    /\ UNCHANGED <<ctxErr, domainNames, mu, totalCPUCoresUsed, totalRAMUsedGB,
                   totalVMs, targets, semaphore, wg, tpc, ctxSeen, cpuRes, memRes,
                   status, written, response, cpuAdds, memAdds, instances, concVars, serverVars, libVars>>

\* faulty variant: the expired context skips the domain but not the loop
ResolveDomain_NoBreak(results) ==
    /\ pc = "resolve"
    /\ LET domainName == domainNames[idx] IN
       /\ IF ctxErr
          THEN /\ AppendLocked(UsageError(domainName, 0, "", "ctx_domain"))
               /\ domRes' = Append(domRes, NotCalled)
               /\ UNCHANGED projectToDomain
          ELSE \E r \in Returns(results) :
               /\ IF ~r.ok
                  THEN /\ AppendLocked(UsageError(domainName, 0, "", "list_projects"))
                       /\ UNCHANGED projectToDomain
                  ELSE IF r.val = {}
                  THEN /\ AppendLocked(UsageError(domainName, 0, "", "no_projects"))
                       /\ UNCHANGED projectToDomain
                  ELSE /\ projectToDomain' =
                             [p \in DOMAIN projectToDomain \cup r.val |->
                                 IF p \in r.val THEN domainName ELSE projectToDomain[p]]
                       /\ UNCHANGED <<usageErrors, errMu, guards>>
               /\ domRes' = Append(domRes, r)
       /\ idx' = idx + 1
       /\ pc' = AfterDomain
    /\ UNCHANGED <<ctxErr, domainNames, mu, totalCPUCoresUsed, totalRAMUsedGB,
                   totalVMs, targets, semaphore, wg, tpc, ctxSeen, cpuRes, memRes,
                   status, written, response, cpuAdds, memAdds, instances, concVars, serverVars, libVars>>

\* faulty variant: a project already in the map keeps its first domain
ResolveDomain_FirstWins(results) ==
    /\ pc = "resolve"
    /\ LET domainName == domainNames[idx] IN
       IF ctxErr
       THEN /\ AppendLocked(UsageError(domainName, 0, "", "ctx_domain"))
            /\ domRes' = Append(domRes, NotCalled)
            /\ pc' = "inventory"
            /\ UNCHANGED <<idx, projectToDomain>>
       ELSE \E r \in Returns(results) :
            /\ IF ~r.ok
               THEN /\ AppendLocked(UsageError(domainName, 0, "", "list_projects"))
                    /\ UNCHANGED projectToDomain
               ELSE IF r.val = {}
               THEN /\ AppendLocked(UsageError(domainName, 0, "", "no_projects"))
                    /\ UNCHANGED projectToDomain
               ELSE /\ projectToDomain' =
                          [p \in DOMAIN projectToDomain \cup r.val |->
                              IF p \in DOMAIN projectToDomain
                              THEN projectToDomain[p] ELSE domainName]
                    /\ UNCHANGED <<usageErrors, errMu, guards>>
            /\ domRes' = Append(domRes, r)
            /\ idx' = idx + 1
            /\ pc' = AfterDomain
    /\ UNCHANGED <<ctxErr, domainNames, mu, totalCPUCoresUsed, totalRAMUsedGB,
                   totalVMs, targets, semaphore, wg, tpc, ctxSeen, cpuRes, memRes,
                   status, written, response, cpuAdds, memAdds, instances, concVars, serverVars, libVars>>

\* one iteration of: for _, domainName := range domainNames
ResolveDomain(results) ==
    /\ pc = "resolve"
    /\ LET domainName == domainNames[idx] IN
       IF ctxErr
       THEN \* record the cancellation and break
            /\ AppendLocked(UsageError(domainName, 0, "", "ctx_domain"))
            /\ domRes' = Append(domRes, NotCalled)
            /\ pc' = "inventory"
            /\ UNCHANGED <<idx, projectToDomain>>
       ELSE \E r \in Returns(results) :
            /\ IF ~r.ok
               THEN /\ AppendLocked(UsageError(domainName, 0, "", "list_projects"))
                    /\ UNCHANGED projectToDomain
               ELSE IF r.val = {}
               THEN /\ AppendLocked(UsageError(domainName, 0, "", "no_projects"))
                    /\ UNCHANGED projectToDomain
               ELSE /\ projectToDomain' =
                          [p \in DOMAIN projectToDomain \cup r.val |->
                              IF p \in r.val THEN domainName ELSE projectToDomain[p]]
                    /\ UNCHANGED <<usageErrors, errMu, guards>>
            /\ domRes' = Append(domRes, r)
            /\ idx' = idx + 1
            /\ pc' = AfterDomain
    /\ UNCHANGED <<ctxErr, domainNames, mu, totalCPUCoresUsed, totalRAMUsedGB,
                   totalVMs, targets, semaphore, wg, tpc, ctxSeen, cpuRes, memRes,
                   status, written, response, cpuAdds, memAdds, instances, concVars, serverVars, libVars>>

\* instances, err := gnocchiClient.GetAllInstances(); the filter into targets;
\* totalVMs = len(targets)
GetAllInstances(inventories) ==
    /\ pc = "inventory"
    /\ \E r \in Returns(inventories) :
          IF ~r.ok
          THEN /\ Abort(500)
               /\ UNCHANGED <<instances, targets, totalVMs, tpc, ctxSeen, cpuRes,
                              memRes, cpuAdds, memAdds>>
          ELSE LET ts == FilterTargets(r.val, projectToDomain) IN
               /\ instances' = r.val
               /\ targets' = ts
               /\ totalVMs' = Len(ts)
               /\ tpc' = [i \in 1..Len(ts) |-> "idle"]
               /\ ctxSeen' = [i \in 1..Len(ts) |-> "unchecked"]
               /\ cpuRes' = [i \in 1..Len(ts) |-> NotCalled]
               /\ memRes' = [i \in 1..Len(ts) |-> NotCalled]
               /\ cpuAdds' = [v \in {r.val[k].ID : k \in DOMAIN r.val} |-> 0]
               /\ memAdds' = [v \in {r.val[k].ID : k \in DOMAIN r.val} |-> 0]
               /\ pc' = "dispatch"
               /\ UNCHANGED <<status, written, response>>
    /\ UNCHANGED <<ctxErr, domainNames, idx, projectToDomain, usageErrors, errMu,
                   mu, totalCPUCoresUsed, totalRAMUsedGB, semaphore, wg, domRes,
                   concVars, serverVars, libVars, guards>>

\* for _, t := range targets { wg.Add(1); go func() {...}() }
Dispatch ==
    /\ pc = "dispatch"
    /\ tpc' = [i \in TaskIds |-> "spawned"]
    /\ wg' = wg + Len(targets)
    /\ pc' = "wait"
    /\ UNCHANGED <<ctxErr, domainNames, idx, projectToDomain, usageErrors, errMu,
                   mu, totalCPUCoresUsed, totalRAMUsedGB, totalVMs, targets,
                   semaphore, ctxSeen, cpuRes, memRes, status, written, response,
                   cpuAdds, memAdds, domRes, instances, concVars, serverVars, libVars, guards>>

\* faulty variant: the handler goes on without wg.Wait()
Wait_NoWait ==
    /\ pc = "wait"
    /\ pc' = "respond"
    /\ UNCHANGED <<ctxErr, domainNames, idx, projectToDomain, usageErrors, errMu,
                   mu, totalCPUCoresUsed, totalRAMUsedGB, totalVMs, targets,
                   semaphore, wg, tpc, ctxSeen, cpuRes, memRes, status, written,
                   response, cpuAdds, memAdds, domRes, instances, concVars, serverVars, libVars, guards>>

\* wg.Wait()
Wait ==
    /\ pc = "wait"
    /\ wg = 0
    /\ pc' = "respond"
    /\ UNCHANGED <<ctxErr, domainNames, idx, projectToDomain, usageErrors, errMu,
                   mu, totalCPUCoresUsed, totalRAMUsedGB, totalVMs, targets,
                   semaphore, wg, tpc, ctxSeen, cpuRes, memRes, status, written,
                   response, cpuAdds, memAdds, domRes, instances, concVars, serverVars, libVars, guards>>

\* faulty variant: the count of the VMs whose vcpus call succeeded
ReportedVMs_Succeeded == Cardinality({i \in DOMAIN cpuRes : cpuRes[i].ok})

\* TotalVMs: totalVMs
ReportedVMs == totalVMs

\* faulty variant: the WriteHeader(206) branch left out
ResponseStatus_Always200(errs) == 200

\* the status line of the response: 206 when usageErrors is non-empty
ResponseStatus(errs) == IF Len(errs) > 0 THEN 206 ELSE 200

\* response := TotalUsage{...}; WriteHeader; Encode
Respond ==
    /\ pc = "respond"
    /\ response' = [kind |-> "usage",
                    TotalVMs |-> ReportedVMs,
                    CPUCoresUsed |-> totalCPUCoresUsed,
                    RAMUsedGB |-> totalRAMUsedGB,
                    Errors |-> usageErrors]
    /\ status' = ResponseStatus(usageErrors)
    /\ written' = written + 1
    /\ pc' = "done"
    /\ UNCHANGED <<ctxErr, domainNames, idx, projectToDomain, usageErrors, errMu,
                   mu, totalCPUCoresUsed, totalRAMUsedGB, totalVMs, targets,
                   semaphore, wg, tpc, ctxSeen, cpuRes, memRes, cpuAdds, memAdds, domRes, instances, concVars, serverVars, libVars, guards>>

\* the 5 minute deadline of ctx passes, or the client goes away
Expire ==
    /\ pc # "done"
    /\ ~ctxErr
    /\ ctxErr' = TRUE
    /\ UNCHANGED <<pc, domainNames, idx, projectToDomain, usageErrors, errMu, mu,
                   totalCPUCoresUsed, totalRAMUsedGB, totalVMs, targets, semaphore,
                   wg, tpc, ctxSeen, cpuRes, memRes, status, written, response,
                   cpuAdds, memAdds, domRes, instances, concVars, serverVars, libVars, guards>>

----------------------------------------------------------------------------
(* The per-VM goroutines.  Steps that touch only the goroutine's own       *)
(* variables (map lookups, log lines) are taken together with the shared   *)
(* step before them.                                                       *)

\* what the request goroutine owns, untouched by every per-VM goroutine
handlerVars == <<pc, domainNames, idx, projectToDomain, totalVMs, targets,
                 status, written, response>>

\* faulty variant: without t := t every goroutine sees the loop variable's last value
TaskTarget_LoopVar(i) == targets[Len(targets)]

\* t := t -- the target captured by goroutine i
TaskTarget(i) == targets[i]

\* faulty variant: the oldest sample instead of the most recent one
LatestValue_First(measures) == measures[1]

\* most recent sample: measures[len(measures)-1].Value
LatestValue(measures) == Last(measures)

\* faulty variant: the megabyte value added as it is
MemGB_NoConversion(memMB) == memMB

\* memGB := memMB / 1024.0
MemGB(memMB) == memMB \div MBPerGB

\* faulty variant: ctx checked again before the memory call
MemStart_CtxCheck(i) ==
    IF "memory" \in TaskTarget(i).Instance.Metrics /\ ~ctxErr
    THEN "memFetch" ELSE "release"

\* if memMetricID, ok := inst.Metrics["memory"]; ok { call } else { return }
MemStart(i) ==
    IF "memory" \in TaskTarget(i).Instance.Metrics THEN "memFetch" ELSE "release"

\* faulty variant: the vcpus call made whether or not the key is in the map
CpuStart_NoOkCheck(i) == "cpuFetch"

\* if vcpuMetricID, ok := inst.Metrics["vcpus"]; ok { call } else { memory part }
CpuStart(i) ==
    IF "vcpus" \in TaskTarget(i).Instance.Metrics THEN "cpuFetch" ELSE MemStart(i)

\* the goroutines holding a semaphore permit
Holding == {i \in TaskIds : tpc[i] \notin {"idle", "spawned", "done"}}

\* the goroutines inside a GetMetricMeasures call
InFlight == {i \in TaskIds : tpc[i] \in {"cpuFetch", "memFetch"}}

\* faulty variant: a send that never blocks
HasFreeSlot_Unbounded == TRUE

\* a send on the buffered channel proceeds only while it holds fewer than cap
HasFreeSlot == semaphore < SemCap

\* semaphore <- struct{}{} and the check that follows it:
\* if ctx.Err() != nil { ... return }; otherwise on to the vcpus part.
\* The two are one step: ctx only ever goes from live to expired, so a deadline
\* passing between them is seen exactly as one passing just before the send.
Acquire(i) ==
    /\ tpc[i] = "spawned"
    /\ HasFreeSlot
    /\ semaphore' = semaphore + 1
    /\ IF ctxErr
       THEN /\ ctxSeen' = [ctxSeen EXCEPT ![i] = "cancelled"]
            /\ tpc' = [tpc EXCEPT ![i] = "cancelLock"]
       ELSE /\ ctxSeen' = [ctxSeen EXCEPT ![i] = "live"]
            /\ tpc' = [tpc EXCEPT ![i] = CpuStart(i)]
    /\ UNCHANGED <<handlerVars, ctxErr, usageErrors, errMu, mu, totalCPUCoresUsed,
                   totalRAMUsedGB, wg, cpuRes, memRes, cpuAdds, memAdds, domRes, instances, concVars, serverVars, libVars, guards>>

\* the mutexes goroutine i holds
HeldBy(i) == {l \in {"mu", "errMu"} : (l = "mu" /\ mu = i) \/ (l = "errMu" /\ errMu = i)}

\* errMu.Lock() at pc from, going to pc to
LockErrMu(i, from, to) ==
    /\ tpc[i] = from
    /\ errMu = 0
    /\ errMu' = i
    /\ tpc' = [tpc EXCEPT ![i] = to]
    /\ UNCHANGED <<handlerVars, ctxErr, usageErrors, mu, totalCPUCoresUsed,
                   totalRAMUsedGB, semaphore, wg, ctxSeen, cpuRes, memRes,
                   cpuAdds, memAdds, domRes, instances, concVars, serverVars, libVars, guards>>

\* faulty variant: an instance that already has an error record gets no second
AppendErr_Dedup(i, from, to, msg) ==
    /\ tpc[i] = from
    /\ errMu = i
    /\ LET t == TaskTarget(i) IN
       usageErrors' =
           IF \E k \in 1..Len(usageErrors) :
                  usageErrors[k].InstanceID = t.Instance.ID
           THEN usageErrors
           ELSE Append(usageErrors,
                    UsageError(t.DomainName, t.Instance.ID, t.Instance.ProjectID, msg))
    /\ guards' = [guards EXCEPT !.errors = @ \cup {HeldBy(i)}]
    /\ errMu' = 0
    /\ tpc' = [tpc EXCEPT ![i] = to]
    /\ UNCHANGED <<handlerVars, ctxErr, mu, totalCPUCoresUsed, totalRAMUsedGB,
                   semaphore, wg, ctxSeen, cpuRes, memRes, cpuAdds, memAdds, domRes, instances, concVars, serverVars, libVars>>

\* faulty variant: the append without the errMu.Unlock() that follows it
AppendErr_NoUnlock(i, from, to, msg) ==
    /\ tpc[i] = from
    /\ errMu = i
    /\ LET t == TaskTarget(i) IN
       usageErrors' = Append(usageErrors,
           UsageError(t.DomainName, t.Instance.ID, t.Instance.ProjectID, msg))
    /\ guards' = [guards EXCEPT !.errors = @ \cup {HeldBy(i)}]
    /\ tpc' = [tpc EXCEPT ![i] = to]
    /\ UNCHANGED <<handlerVars, ctxErr, mu, errMu, totalCPUCoresUsed, totalRAMUsedGB,
                   semaphore, wg, ctxSeen, cpuRes, memRes, cpuAdds, memAdds, domRes, instances, concVars, serverVars, libVars>>

\* usageErrors = append(usageErrors, UsageError{...}); errMu.Unlock()
AppendErr(i, from, to, msg) ==
    /\ tpc[i] = from
    /\ errMu = i
    /\ LET t == TaskTarget(i) IN
       usageErrors' = Append(usageErrors,
           UsageError(t.DomainName, t.Instance.ID, t.Instance.ProjectID, msg))
    /\ guards' = [guards EXCEPT !.errors = @ \cup {HeldBy(i)}]
    /\ errMu' = 0
    /\ tpc' = [tpc EXCEPT ![i] = to]
    /\ UNCHANGED <<handlerVars, ctxErr, mu, totalCPUCoresUsed, totalRAMUsedGB,
                   semaphore, wg, ctxSeen, cpuRes, memRes, cpuAdds, memAdds, domRes, instances, concVars, serverVars, libVars>>

\* faulty variant: a Lock that does not wait for the holder to unlock
LockMu_NoWait(i, from, to) ==
    /\ tpc[i] = from
    /\ mu' = i
    /\ tpc' = [tpc EXCEPT ![i] = to]
    /\ UNCHANGED <<handlerVars, ctxErr, usageErrors, errMu, totalCPUCoresUsed,
                   totalRAMUsedGB, semaphore, wg, ctxSeen, cpuRes, memRes,
                   cpuAdds, memAdds, domRes, instances, concVars, serverVars, libVars, guards>>

\* mu.Lock() at pc from, going to pc to
LockMu(i, from, to) ==
    /\ tpc[i] = from
    /\ mu = 0
    /\ mu' = i
    /\ tpc' = [tpc EXCEPT ![i] = to]
    /\ UNCHANGED <<handlerVars, ctxErr, usageErrors, errMu, totalCPUCoresUsed,
                   totalRAMUsedGB, semaphore, wg, ctxSeen, cpuRes, memRes,
                   cpuAdds, memAdds, domRes, instances, concVars, serverVars, libVars, guards>>

CancelLock(i) == LockErrMu(i, "cancelLock", "cancelAppend")

\* faulty variant: the cancellation recorded without the return that follows it
CancelAppend_NoReturn(i) == AppendErr(i, "cancelAppend", CpuStart(i), "ctx_instance")

CancelAppend(i) == AppendErr(i, "cancelAppend", "release", "ctx_instance")

\* faulty variant: an empty list of samples taken for a failed call
CpuReturn_EmptyIsError(i, measures) ==
    /\ tpc[i] = "cpuFetch"
    /\ \E r \in Returns(measures) :
          /\ cpuRes' = [cpuRes EXCEPT ![i] = r]
          /\ tpc' = [tpc EXCEPT ![i] =
                        IF ~r.ok \/ Len(r.val) = 0 THEN "cpuErrLock"
                        ELSE "cpuAddLock"]
    /\ UNCHANGED <<handlerVars, ctxErr, usageErrors, errMu, mu, totalCPUCoresUsed,
                   totalRAMUsedGB, semaphore, wg, ctxSeen, memRes, cpuAdds, memAdds,
                   domRes, instances, concVars, serverVars, libVars, guards>>

\* measures, err := gnocchiClient.GetMetricMeasures(vcpuMetricID, "", "", 300)
CpuReturn(i, measures) ==
    /\ tpc[i] = "cpuFetch"
    /\ \E r \in Returns(measures) :
          /\ cpuRes' = [cpuRes EXCEPT ![i] = r]
          /\ tpc' = [tpc EXCEPT ![i] =
                        IF ~r.ok THEN "cpuErrLock"
                        ELSE IF Len(r.val) > 0 THEN "cpuAddLock"
                        ELSE MemStart(i)]
    /\ UNCHANGED <<handlerVars, ctxErr, usageErrors, errMu, mu, totalCPUCoresUsed,
                   totalRAMUsedGB, semaphore, wg, ctxSeen, memRes, cpuAdds, memAdds, domRes, instances, concVars, serverVars, libVars, guards>>

CpuErrLock(i) == LockErrMu(i, "cpuErrLock", "cpuErrAppend")

\* faulty variant: the goroutine gives up on the VM after a failed vcpus call
CpuErrAppend_Return(i) == AppendErr(i, "cpuErrAppend", "release", "vcpus_measures")

\* faulty variant: the vcpus call made again after it failed
CpuErrAppend_Retry(i) == AppendErr(i, "cpuErrAppend", "cpuFetch", "vcpus_measures")

\* the error branch of the vcpus part; the memory part follows it
CpuErrAppend(i) == AppendErr(i, "cpuErrAppend", MemStart(i), "vcpus_measures")
CpuAddLock(i) == LockMu(i, "cpuAddLock", "cpuAdd")

\* faulty variant: = in place of +=
CpuAdd_Assign(i) ==
    /\ tpc[i] = "cpuAdd"
    /\ mu = i
    /\ totalCPUCoresUsed' = LatestValue(cpuRes[i].val)
    /\ cpuAdds' = [cpuAdds EXCEPT ![TaskTarget(i).Instance.ID] = @ + 1]
    /\ guards' = [guards EXCEPT !.cpu = @ \cup {HeldBy(i)}]
    /\ mu' = 0
    /\ tpc' = [tpc EXCEPT ![i] = MemStart(i)]
    /\ UNCHANGED <<handlerVars, ctxErr, usageErrors, errMu, totalRAMUsedGB,
                   semaphore, wg, ctxSeen, cpuRes, memRes, memAdds, domRes, instances, concVars, serverVars, libVars>>

\* faulty variant: the addition without the mu.Unlock() that follows it
CpuAdd_NoUnlock(i) ==
    /\ tpc[i] = "cpuAdd"
    /\ mu = i
    /\ totalCPUCoresUsed' = FloatAdd(totalCPUCoresUsed, LatestValue(cpuRes[i].val))
    /\ cpuAdds' = [cpuAdds EXCEPT ![TaskTarget(i).Instance.ID] = @ + 1]
    /\ guards' = [guards EXCEPT !.cpu = @ \cup {HeldBy(i)}]
    /\ tpc' = [tpc EXCEPT ![i] = MemStart(i)]
    /\ UNCHANGED <<handlerVars, ctxErr, usageErrors, errMu, mu, totalRAMUsedGB,
                   semaphore, wg, ctxSeen, cpuRes, memRes, memAdds, domRes, instances, concVars, serverVars, libVars>>

\* totalCPUCoresUsed += vcpus; mu.Unlock()
CpuAdd(i) ==
    /\ tpc[i] = "cpuAdd"
    /\ mu = i
    /\ totalCPUCoresUsed' = FloatAdd(totalCPUCoresUsed, LatestValue(cpuRes[i].val))
    /\ cpuAdds' = [cpuAdds EXCEPT ![TaskTarget(i).Instance.ID] = @ + 1]
    /\ guards' = [guards EXCEPT !.cpu = @ \cup {HeldBy(i)}]
    /\ mu' = 0
    /\ tpc' = [tpc EXCEPT ![i] = MemStart(i)]
    /\ UNCHANGED <<handlerVars, ctxErr, usageErrors, errMu, totalRAMUsedGB,
                   semaphore, wg, ctxSeen, cpuRes, memRes, memAdds, domRes, instances, concVars, serverVars, libVars>>

\* faulty variant: an empty list of memory samples taken for a failed call
MemReturn_EmptyIsError(i, measures) ==
    /\ tpc[i] = "memFetch"
    /\ \E r \in Returns(measures) :
          /\ memRes' = [memRes EXCEPT ![i] = r]
          /\ tpc' = [tpc EXCEPT ![i] =
                        IF ~r.ok \/ Len(r.val) = 0 THEN "memErrLock"
                        ELSE "memAddLock"]
    /\ UNCHANGED <<handlerVars, ctxErr, usageErrors, errMu, mu, totalCPUCoresUsed,
                   totalRAMUsedGB, semaphore, wg, ctxSeen, cpuRes, cpuAdds, memAdds, domRes, instances, concVars, serverVars, libVars, guards>>

\* memMeasures, err := gnocchiClient.GetMetricMeasures(memMetricID, "", "", 300)
MemReturn(i, measures) ==
    /\ tpc[i] = "memFetch"
    /\ \E r \in Returns(measures) :
          /\ memRes' = [memRes EXCEPT ![i] = r]
          /\ tpc' = [tpc EXCEPT ![i] =
                        IF ~r.ok THEN "memErrLock"
                        ELSE IF Len(r.val) > 0 THEN "memAddLock"
                        ELSE "release"]
    /\ UNCHANGED <<handlerVars, ctxErr, usageErrors, errMu, mu, totalCPUCoresUsed,
                   totalRAMUsedGB, semaphore, wg, ctxSeen, cpuRes, cpuAdds, memAdds, domRes, instances, concVars, serverVars, libVars, guards>>

MemErrLock(i) == LockErrMu(i, "memErrLock", "memErrAppend")
MemErrAppend(i) == AppendErr(i, "memErrAppend", "release", "memory_measures")
MemAddLock(i) == LockMu(i, "memAddLock", "memAdd")

\* faulty variant: the memory value added to the CPU total
MemAdd_WrongTotal(i) ==
    /\ tpc[i] = "memAdd"
    /\ mu = i
    /\ totalCPUCoresUsed' =
          FloatAdd(totalCPUCoresUsed, MemGB(LatestValue(memRes[i].val)))
    /\ memAdds' = [memAdds EXCEPT ![TaskTarget(i).Instance.ID] = @ + 1]
    /\ guards' = [guards EXCEPT !.cpu = @ \cup {HeldBy(i)}]
    /\ mu' = 0
    /\ tpc' = [tpc EXCEPT ![i] = "release"]
    /\ UNCHANGED <<handlerVars, ctxErr, usageErrors, errMu, totalRAMUsedGB,
                   semaphore, wg, ctxSeen, cpuRes, memRes, cpuAdds, domRes, instances, concVars, serverVars, libVars>>

\* totalRAMUsedGB += memGB; mu.Unlock()
MemAdd(i) ==
    /\ tpc[i] = "memAdd"
    /\ mu = i
    /\ totalRAMUsedGB' = FloatAdd(totalRAMUsedGB, MemGB(LatestValue(memRes[i].val)))
    /\ memAdds' = [memAdds EXCEPT ![TaskTarget(i).Instance.ID] = @ + 1]
    /\ guards' = [guards EXCEPT !.ram = @ \cup {HeldBy(i)}]
    /\ mu' = 0
    /\ tpc' = [tpc EXCEPT ![i] = "release"]
    /\ UNCHANGED <<handlerVars, ctxErr, usageErrors, errMu, totalCPUCoresUsed,
                   semaphore, wg, ctxSeen, cpuRes, memRes, cpuAdds, domRes, instances, concVars, serverVars, libVars>>

\* faulty variant: the permit returned but wg.Done() never called
Release_NoDone(i) ==
    /\ tpc[i] = "release"
    /\ semaphore' = semaphore - 1
    /\ tpc' = [tpc EXCEPT ![i] = "done"]
    /\ UNCHANGED <<handlerVars, ctxErr, usageErrors, errMu, mu, totalCPUCoresUsed,
                   totalRAMUsedGB, wg, ctxSeen, cpuRes, memRes, cpuAdds, memAdds, domRes, instances, concVars, serverVars, libVars, guards>>

\* faulty variant: wg.Done() without the deferred receive from the semaphore
Release_KeepPermit(i) ==
    /\ tpc[i] = "release"
    /\ wg' = wg - 1
    /\ tpc' = [tpc EXCEPT ![i] = "done"]
    /\ UNCHANGED <<handlerVars, ctxErr, usageErrors, errMu, mu, totalCPUCoresUsed,
                   totalRAMUsedGB, semaphore, ctxSeen, cpuRes, memRes, cpuAdds,
                   memAdds, domRes, instances, concVars, serverVars, libVars, guards>>

\* the deferred calls: <-semaphore, then wg.Done()
Release(i) ==
    /\ tpc[i] = "release"
    /\ semaphore' = semaphore - 1
    /\ wg' = wg - 1
    /\ tpc' = [tpc EXCEPT ![i] = "done"]
    /\ UNCHANGED <<handlerVars, ctxErr, usageErrors, errMu, mu, totalCPUCoresUsed,
                   totalRAMUsedGB, ctxSeen, cpuRes, memRes, cpuAdds, memAdds, domRes, instances, concVars, serverVars, libVars, guards>>

----------------------------------------------------------------------------
(* The server of main.go: router, bearerAuth middleware, and the handler of *)
(* /api/v1/usage/cluster with the Redis cache of cache.go.  Strings that   *)
(* the code slices are sequences of characters.                            *)

\* the run of getTotalUsage that is followed goroutine by goroutine
runVars == <<pc, ctxErr, domainNames, idx, projectToDomain, usageErrors, errMu,
             mu, totalCPUCoresUsed, totalRAMUsedGB, totalVMs, targets, semaphore,
             wg, tpc, ctxSeen, cpuRes, memRes, status, written, response,
             cpuAdds, memAdds, domRes, instances, guards>>

\* what every step of the server leaves alone
usageVars == <<runVars, concVars, libVars>>

BearerPrefix == <<"B", "e", "a", "r", "e", "r", " ">>

\* values of API_BEARER_TOKEN: unset (or empty), "s", "sk"
Tokens == {<<>>, <<"s">>, <<"s", "k">>}

\* Authorization headers: none, "Bearer", "Bearer ", "Bearer s", "Bearer sk",
\* "Bearer x", "bearer s", "Basic s", "Bearer  s", "s"
Headers ==
    {<<>>,
     <<"B", "e", "a", "r", "e", "r">>,
     BearerPrefix,
     BearerPrefix \o <<"s">>,
     BearerPrefix \o <<"s", "k">>,
     BearerPrefix \o <<"x">>,
     <<"b", "e", "a", "r", "e", "r", " ", "s">>,
     <<"B", "a", "s", "i", "c", " ", "s">>,
     BearerPrefix \o <<" ", "s">>,
     <<"s">>}

\* the routes of the router and the handler of each
Routes == {"/health", "/api/v1/usage/total", "/api/v1/usage/cluster",
           "/api/v1/billing/cpu", "/api/v1/billing/resources",
           "/api/v1/billing/report"}
ApiRoutes == Routes \ {"/health"}
HandlerOf(route) ==
    CASE route = "/health" -> "healthCheck"
      [] route = "/api/v1/usage/total" -> "getTotalUsage"
      [] route = "/api/v1/usage/cluster" -> "getClusterUsage"
      [] route = "/api/v1/billing/cpu" -> "getCPUBilling"
      [] route = "/api/v1/billing/resources" -> "getResourceBilling"
      [] route = "/api/v1/billing/report" -> "getBillingReport"

\* a ClusterUsage computed at time t
ClusterUsage(t) == [kind |-> "usage", Timestamp |-> t]
TextBody == [kind |-> "text"]

\* a ClusterUsage one of whose float64 fields is NaN or an infinity
NonFiniteUsage(t) == [kind |-> "usage", Timestamp |-> t, nonFinite |-> TRUE]

\* json.Marshal(usage): the bytes of the document, or an error for a float
\* that JSON cannot carry
Marshal(usage) ==
    IF "nonFinite" \in DOMAIN usage THEN Failed
    ELSE Ok([valid |-> TRUE, of |-> usage])

\* bytes that are not a JSON document of a ClusterUsage
Garbage == [valid |-> FALSE]

\* json.Unmarshal(data, &usage)
Unmarshal(data) == IF data.valid THEN Ok(data.of) ELSE Failed

\* what Redis may hold when the server starts: nothing, or bytes stored by an
\* earlier run (a snapshot, or something else), with some time left to live
Entry(data, ttl) == [present |-> TRUE, data |-> data, ttl |-> ttl]
NoEntry == [present |-> FALSE]
StoreStates ==
    {NoEntry} \cup {Entry(d, ttl) : d \in {Marshal(ClusterUsage(0)).val, Garbage},
                                    ttl \in 1..MaxTime}

\* http.Error(w, ..., code) or Encode(body) by a handler or the middleware,
\* which ends the request
Reply(code, by, body) ==
    /\ reply' = [status |-> code, by |-> by, body |-> body]
    /\ served' = served + 1
    /\ spc' = "idle"

\* main(): godotenv.Load, initRedis, the router
Boot ==
    /\ spc = "boot"
    /\ apiBearerToken' \in Tokens
    /\ redisClient' \in {"nil", "up"}
    /\ redisStore' \in StoreStates
    /\ spc' = "idle"
    /\ UNCHANGED <<req, reply, invoked, served, now, seen, fetches, usageVars, cacheVars>>

\* a GET request reaches the router
Arrive(routes, headers) ==
    /\ spc = "idle"
    /\ served < MaxRequests
    /\ \E route \in routes, auth \in headers :
          req' = [route |-> route, auth |-> auth]
    /\ reply' = [status |-> 0, by |-> "none", body |-> [kind |-> "none"]]
    /\ invoked' = "none"
    /\ seen' = redisStore
    /\ fetches' = 0
    /\ spc' = "mux"
    /\ UNCHANGED <<apiBearerToken, redisClient, redisStore, served, now, usageVars, cacheVars>>

\* the router: /health goes to healthCheck, the /api/v1 subrouter runs its
\* middleware first (api.Use(bearerAuth))
Route ==
    /\ spc = "mux"
    /\ IF req.route \in ApiRoutes
       THEN spc' = "bearerAuth" /\ UNCHANGED invoked
       ELSE spc' = "healthCheck" /\ invoked' = HandlerOf(req.route)
    /\ UNCHANGED <<apiBearerToken, redisClient, redisStore, req, reply, served,
                   now, seen, fetches, usageVars, cacheVars>>

HealthCheck ==
    /\ spc = "healthCheck"
    /\ Reply(200, "healthCheck", TextBody)
    /\ UNCHANGED <<apiBearerToken, redisClient, redisStore, req, invoked, now,
                   seen, fetches, usageVars, cacheVars>>

\* faulty variant: the token accepted when the configured one starts with it
BearerAuthDecision_Prefix(expected, auth) ==
    IF expected = <<>> THEN 500
    ELSE IF auth = <<>> \/ Len(auth) < 8 \/ SubSeq(auth, 1, 7) # BearerPrefix THEN 401
    ELSE IF Len(auth) - 7 > Len(expected)
            \/ SubSeq(auth, 8, Len(auth)) # SubSeq(expected, 1, Len(auth) - 7) THEN 401
    ELSE 0

\* bearerAuth's checks: the status it answers with, or 0 for next.ServeHTTP
BearerAuthDecision(expected, auth) ==
    IF expected = <<>> THEN 500
    ELSE IF auth = <<>> \/ Len(auth) < 8 \/ SubSeq(auth, 1, 7) # BearerPrefix THEN 401
    ELSE IF SubSeq(auth, 8, Len(auth)) # expected THEN 401
    ELSE 0

\* where the invoked handler starts
HandlerStart(route) ==
    IF route = "/api/v1/usage/cluster" THEN "cluster" ELSE "handler"

\* the middleware on one request
BearerAuth ==
    /\ spc = "bearerAuth"
    /\ LET code == BearerAuthDecision(apiBearerToken, req.auth) IN
       IF code # 0
       THEN Reply(code, "bearerAuth", TextBody) /\ UNCHANGED invoked
       ELSE /\ invoked' = HandlerOf(req.route)
            /\ spc' = HandlerStart(req.route)
            /\ UNCHANGED <<reply, served>>
    /\ UNCHANGED <<apiBearerToken, redisClient, redisStore, req, now, seen,
                   fetches, usageVars, cacheVars>>

\* getTotalUsage and the billing handlers, up to the status they answer with
HandlerStatuses == {200, 206, 400, 401, 404, 500}
Handler ==
    /\ spc = "handler"
    /\ \E code \in HandlerStatuses : Reply(code, invoked, TextBody)
    /\ UNCHANGED <<apiBearerToken, redisClient, redisStore, req, invoked, now,
                   seen, fetches, usageVars, cacheVars>>

\* getClusterUsage: adminToken, err := GetAdminToken(ctx)
ClusterGetAdminToken ==
    /\ spc = "cluster"
    /\ \E ok \in BOOLEAN :
          IF ok
          THEN spc' = "clusterStats" /\ UNCHANGED <<reply, served>>
          ELSE Reply(401, "getClusterUsage", TextBody)
    /\ UNCHANGED <<apiBearerToken, redisClient, redisStore, req, invoked, now,
                   seen, fetches, usageVars, cacheVars>>

\* hyperStats, err := novaClient.GetHypervisorStats()
ClusterGetHypervisorStats ==
    /\ spc = "clusterStats"
    /\ fetches' = fetches + 1
    /\ \E ok \in BOOLEAN :
          IF ok
          THEN spc' = "clusterServers" /\ UNCHANGED <<reply, served>>
          ELSE Reply(500, "getClusterUsage", TextBody)
    /\ UNCHANGED <<apiBearerToken, redisClient, redisStore, req, invoked, now,
                   seen, usageVars, cacheVars>>

\* servers, err := novaClient.ListAllServers(); on success the figures are
\* computed and the ClusterUsage is encoded
ClusterListAllServers ==
    /\ spc = "clusterServers"
    /\ fetches' = fetches + 1
    /\ \E ok \in BOOLEAN :
          IF ok
          THEN Reply(200, "getClusterUsage", ClusterUsage(now))
          ELSE Reply(500, "getClusterUsage", TextBody)
    /\ UNCHANGED <<apiBearerToken, redisClient, redisStore, req, invoked, now,
                   seen, usageVars, cacheVars>>

\* a second passes; the entry in Redis expires when its TTL runs out
Tick ==
    /\ spc # "boot"
    /\ now < MaxTime
    /\ now' = now + 1
    /\ redisStore' =
          IF ~redisStore.present THEN redisStore
          ELSE IF redisStore.ttl = 1 THEN NoEntry
          ELSE [redisStore EXCEPT !.ttl = @ - 1]
    /\ UNCHANGED <<apiBearerToken, redisClient, spc, req, reply, invoked, served,
                   seen, fetches, usageVars, cacheVars>>

----------------------------------------------------------------------------
(* The functions of cache.go, as any caller may use them *)

Digits == <<"0", "1", "2", "3", "4", "5", "6", "7", "8", "9">>
IsDigit(c) == \E d \in 1..10 : Digits[d] = c
DigitValue(c) == (CHOOSE d \in 1..10 : Digits[d] = c) - 1

\* the value of a non-empty sequence of digits
RECURSIVE Decimal(_)
Decimal(s) ==
    IF Len(s) = 1 THEN DigitValue(s[1])
    ELSE 10 * Decimal(SubSeq(s, 1, Len(s) - 1)) + DigitValue(s[Len(s)])

\* strconv.Atoi: an optional sign followed by one digit or more
Atoi(s) ==
    LET signed == Len(s) > 0 /\ s[1] \in {"+", "-"}
        digits == IF signed THEN Tail(s) ELSE s
    IN IF Len(digits) = 0 \/ \E k \in 1..Len(digits) : ~IsDigit(digits[k])
       THEN Failed
       ELSE Ok(IF signed /\ s[1] = "-" THEN 0 - Decimal(digits) ELSE Decimal(digits))

\* values of CACHE_TTL_SECONDS: unset, "2s", "0", "-5", "02"
TTLSettings == {<<>>, <<"2", "s">>, <<"0">>, <<"-", "5">>, <<"0", "2">>}

\* getCacheTTL, in seconds, for the value ttlStr of CACHE_TTL_SECONDS
GetCacheTTL(ttlStr) ==
    IF ttlStr = <<>> THEN DefaultTTL
    ELSE LET ttl == Atoi(ttlStr)
         IN IF ~ttl.ok THEN DefaultTTL
            ELSE IF ttl.val <= 0 THEN DefaultTTL
            ELSE ttl.val

\* what getCachedClusterUsage returns: nil, or a pointer to a ClusterUsage
Miss == [hit |-> FALSE]
Hit(usage) == [hit |-> TRUE, usage |-> usage]

\* the ClusterUsage values a caller may hand to setCachedClusterUsage: one
\* computed now, with or without a float that JSON cannot carry
Usages == {ClusterUsage(now), NonFiniteUsage(now)}

\* the requests of the run of the cache functions: for the cluster usage,
\* with the token "s"
ClusterRoutes == {"/api/v1/usage/cluster"}
ClusterHeaders == {BearerPrefix \o <<"s">>}

\* how a call on the Redis client ends: with a reply, or with an error
\* (connection lost, the 2 second timeout)
RedisOutcomes == {"reply", "error"}

\* getCachedClusterUsage()
GetCachedClusterUsage ==
    /\ spc # "boot"
    /\ IF redisClient = "nil"
       THEN /\ cached' = Miss
            /\ cacheOp' = [op |-> "get", err |-> "nil_client"]
       ELSE \E outcome \in RedisOutcomes :
            IF outcome = "error" \/ ~redisStore.present
            THEN \* err != nil: an error, or redis.Nil for a key that is not there
                 /\ cached' = Miss
                 /\ cacheOp' = [op |-> "get", err |-> "redis"]
            ELSE LET usage == Unmarshal(redisStore.data) IN
                 IF ~usage.ok
                 THEN /\ cached' = Miss
                      /\ cacheOp' = [op |-> "get", err |-> "unmarshal"]
                 ELSE /\ cached' = Hit(usage.val)
                      /\ cacheOp' = [op |-> "get", err |-> "none"]
    /\ UNCHANGED <<apiBearerToken, redisClient, redisStore, spc, req, reply,
                   invoked, served, now, seen, fetches, usageVars>>

\* faulty variant: the nil check on redisClient left out
SetCachedClusterUsage_NoNilCheck(usage, ttlStr) ==
    /\ spc # "boot"
    /\ LET data == Marshal(usage) IN
       IF ~data.ok
       THEN /\ cacheOp' = [op |-> "set", err |-> "marshal"]
            /\ UNCHANGED redisStore
       ELSE \E outcome \in RedisOutcomes :
            IF outcome = "error"
            THEN /\ cacheOp' = [op |-> "set", err |-> "redis"]
                 /\ redisStore' \in {redisStore, Entry(data.val, GetCacheTTL(ttlStr))}
            ELSE /\ cacheOp' = [op |-> "set", err |-> "none"]
                 /\ redisStore' = Entry(data.val, GetCacheTTL(ttlStr))
    /\ UNCHANGED <<apiBearerToken, redisClient, spc, req, reply, invoked, served,
                   now, seen, fetches, cached, usageVars>>

\* setCachedClusterUsage(usage), with ttlStr the value of CACHE_TTL_SECONDS.
\* A Set that ends in an error may or may not have reached Redis.
SetCachedClusterUsage(usage, ttlStr) ==
    /\ spc # "boot"
    /\ IF redisClient = "nil"
       THEN /\ cacheOp' = [op |-> "set", err |-> "nil_client"]
            /\ UNCHANGED redisStore
       ELSE LET data == Marshal(usage) IN
            IF ~data.ok
            THEN /\ cacheOp' = [op |-> "set", err |-> "marshal"]
                 /\ UNCHANGED redisStore
            ELSE \E outcome \in RedisOutcomes :
                 IF outcome = "error"
                 THEN /\ cacheOp' = [op |-> "set", err |-> "redis"]
                      /\ redisStore' \in {redisStore,
                                          Entry(data.val, GetCacheTTL(ttlStr))}
                 ELSE /\ cacheOp' = [op |-> "set", err |-> "none"]
                      /\ redisStore' = Entry(data.val, GetCacheTTL(ttlStr))
    /\ UNCHANGED <<apiBearerToken, redisClient, spc, req, reply, invoked, served,
                   now, seen, fetches, cached, usageVars>>

\* a call of setCachedClusterUsage
SetCached == \E usage \in Usages, ttlStr \in TTLSettings :
                 SetCachedClusterUsage(usage, ttlStr)

----------------------------------------------------------------------------
(* Requests for the total usage served at the same time: net/http runs each *)
(* in its own goroutine.  A request is followed through GetAdminToken, which *)
(* writes the package variable adminProjectID, and through the additions of *)
(* its own goroutines to its own totalCPUCoresUsed.  An access to            *)
(* adminProjectID has a beginning and an end; two accesses that overlap, one *)
(* of them a write, are a data race, and what a racing access stores or      *)
(* reads is any of the values in play or a mix of them.                      *)

Requests == 1..MaxRequests

\* the project ids a token response may carry
AdminProjects == {"pa", "pb"}

\* the latest vcpus samples of the VMs of a request
SampleLists == {<<>>, <<1024>>, <<2048, 1024>>}

\* request r is inside the assignment to adminProjectID
Writing(r) == rpc[r] = "storing"

\* request r is inside the assignment or inside the read of the log line
Accessing(r) == rpc[r] \in {"storing", "logging"}

\* the other requests that are inside the assignment
OtherWriters(r) == {o \in Requests : o # r /\ Writing(o)}

\* the rest of the state
otherVars == <<runVars, serverVars, libVars>>

\* the request arrives; its VMs and their samples are what Gnocchi will say
ConcArrive(r) ==
    /\ rpc[r] = "idle"
    /\ \E l \in SampleLists :
          /\ samples' = [samples EXCEPT ![r] = l]
          /\ given' = [given EXCEPT ![r] = l]
    /\ rpc' = [rpc EXCEPT ![r] = "login"]
    /\ UNCHANGED <<adminProjectID, tokenProject, logged, rtotal, rreply, otherVars>>

\* adminToken, err := GetAdminToken(ctx): the login fails (401), or it
\* succeeds and the body does not decode, or it decodes and the assignment
\* adminProjectID = tokenResp.Token.Project.ID begins
ConcGetAdminToken(r) ==
    /\ rpc[r] = "login"
    /\ \/ /\ rreply' = [rreply EXCEPT ![r] = [status |-> 401]]
          /\ rpc' = [rpc EXCEPT ![r] = "done"]
          /\ UNCHANGED tokenProject
       \/ /\ rpc' = [rpc EXCEPT ![r] = "aggregate"]
          /\ UNCHANGED <<rreply, tokenProject>>
       \/ \E p \in AdminProjects :
             /\ tokenProject' = [tokenProject EXCEPT ![r] = p]
             /\ rpc' = [rpc EXCEPT ![r] = "storing"]
             /\ UNCHANGED rreply
    /\ UNCHANGED <<adminProjectID, logged, samples, given, rtotal, otherVars>>

\* the assignment ends; then the read for the log line begins
ConcStoreProject(r) ==
    /\ rpc[r] = "storing"
    /\ adminProjectID' \in
          IF OtherWriters(r) = {} THEN {tokenProject[r]}
          ELSE {tokenProject[r], "torn"} \cup {tokenProject[o] : o \in OtherWriters(r)}
    /\ rpc' = [rpc EXCEPT ![r] = "logging"]
    /\ UNCHANGED <<tokenProject, logged, samples, given, rtotal, rreply, otherVars>>

\* log.Printf("Admin project ID: %s ...", adminProjectID, ...)
ConcLogProject(r) ==
    /\ rpc[r] = "logging"
    /\ \E v \in IF OtherWriters(r) = {} THEN {adminProjectID}
                ELSE {adminProjectID, "torn"}
                     \cup {tokenProject[o] : o \in OtherWriters(r)} :
          logged' = [logged EXCEPT ![r] = v]
    /\ rpc' = [rpc EXCEPT ![r] = "aggregate"]
    /\ UNCHANGED <<adminProjectID, tokenProject, samples, given, rtotal, rreply,
                   otherVars>>

\* one goroutine of the request: mu.Lock(); totalCPUCoresUsed += vcpus;
\* mu.Unlock(), on the request's own mu and total
ConcAdd(r) ==
    /\ rpc[r] = "aggregate"
    /\ samples[r] # <<>>
    /\ rtotal' = [rtotal EXCEPT ![r] = FloatAdd(@, Head(samples[r]))]
    /\ samples' = [samples EXCEPT ![r] = Tail(@)]
    /\ UNCHANGED <<adminProjectID, rpc, tokenProject, logged, given, rreply,
                   otherVars>>

\* wg.Wait() and the response
ConcRespond(r) ==
    /\ rpc[r] = "aggregate"
    /\ samples[r] = <<>>
    /\ rreply' = [rreply EXCEPT ![r] = [status |-> 200, CPUCoresUsed |-> rtotal[r]]]
    /\ rpc' = [rpc EXCEPT ![r] = "done"]
    /\ UNCHANGED <<adminProjectID, tokenProject, logged, samples, given, rtotal,
                   otherVars>>

----------------------------------------------------------------------------
(* The panel client of vhi_panel.go: the singleton VHIPanelClient, logged   *)
(* in at start-up, on which doAuthGet and doGrafanaGet are called one call  *)
(* after the other.  A cookie is its name; a response is its status, with 0 *)
(* for a request that got no response.                                      *)

beyondPanel == <<runVars, serverVars, concVars, figureVars, billingVars>>

\* what POST /api/v2/login may answer: nothing, a refusal, an unreadable
\* body, a scoped token with or without cookies, a plain token, no token
LoginResponses ==
    {[status |-> 0, parses |-> FALSE, scoped_token |-> "", token |-> "", cookies |-> <<>>],
     [status |-> 401, parses |-> TRUE, scoped_token |-> "", token |-> "", cookies |-> <<>>],
     [status |-> 200, parses |-> FALSE, scoped_token |-> "", token |-> "", cookies |-> <<>>],
     [status |-> 200, parses |-> TRUE, scoped_token |-> "st", token |-> "t",
      cookies |-> <<"session">>],
     [status |-> 201, parses |-> TRUE, scoped_token |-> "st", token |-> "", cookies |-> <<>>],
     [status |-> 200, parses |-> TRUE, scoped_token |-> "", token |-> "t",
      cookies |-> <<"session">>],
     [status |-> 200, parses |-> TRUE, scoped_token |-> "", token |-> "unscoped",
      cookies |-> <<>>]}

\* what GET /grafana/api/user may answer
SsoResponses ==
    {[status |-> 0, cookies |-> <<>>],
     [status |-> 200, cookies |-> <<"grafana_session">>],
     [status |-> 200, cookies |-> <<>>],
     [status |-> 302, cookies |-> <<"grafana_session">>],
     [status |-> 401, cookies |-> <<>>]}

\* the statuses of the GET that the caller asked for
GetStatuses == {0, 200, 401, 500}

\* one entry of the history of a call
Sent(op, code, ok) == [op |-> op, status |-> code, ok |-> ok]

\* what a login leaves in the client and whether it failed
Logged(failed, t, cs) == [err |-> failed, token |-> t, cookies |-> cs]

\* c.Login() on the answer resp: the token and the cookies it leaves
Login(resp) ==
    IF resp.status = 0 THEN Logged(TRUE, token, cookies)
    ELSE IF resp.status # 200 /\ resp.status # 201 THEN Logged(TRUE, token, cookies)
    ELSE IF ~resp.parses THEN Logged(TRUE, token, cookies)
    ELSE IF resp.scoped_token # "" THEN Logged(FALSE, resp.scoped_token, resp.cookies)
    ELSE IF resp.token # "" /\ resp.token # "unscoped"
         THEN Logged(FALSE, resp.token, cookies)
    ELSE Logged(TRUE, token, cookies)

\* the panel's cookie "session" is sent to Grafana as "session0"
Session0(cs) == [i \in 1..Len(cs) |-> IF cs[i] = "session" THEN "session0" ELSE cs[i]]

\* c.loginGrafana() on the answers resp (of the panel login it makes when
\* there is no token) and sso: what it leaves in the client, and the requests
\* it sent, ended by the return of the function
LoginGrafana(resp, sso) ==
    LET l == IF token = "" THEN Login(resp) ELSE Logged(FALSE, token, cookies)
        posted == IF token = "" THEN <<Sent("login", resp.status, ~l.err)>> ELSE <<>>
        session0Cookies == Session0(l.cookies)
        accepted == sso.status \in {200, 302, 303}
        Left(failed, gcs, sent) ==
            [err |-> failed, token |-> l.token, cookies |-> l.cookies,
             grafanaCookies |-> gcs,
             sent |-> sent \o <<Sent("loginGrafana", 0, ~failed)>>]
    IN  IF l.err THEN Left(TRUE, grafanaCookies, posted)
        ELSE IF Len(session0Cookies) = 0 THEN Left(TRUE, grafanaCookies, posted)
        ELSE IF sso.status = 0
             THEN Left(TRUE, grafanaCookies, posted \o <<Sent("sso", 0, FALSE)>>)
        ELSE Left(~accepted,
                  session0Cookies
                      \o SelectSeq(sso.cookies, LAMBDA ck : ck = "grafana_session"),
                  posted \o <<Sent("sso", sso.status, accepted)>>)

\* main(): panelClient.Login() at start-up, a failure only logged
PanelStart ==
    /\ ppc = "start"
    /\ \E resp \in LoginResponses :
          /\ token' = Login(resp).token
          /\ cookies' = Login(resp).cookies
    /\ ppc' = "idle"
    /\ UNCHANGED <<grafanaCookies, pkind, attempt, ptrace, presult, pcalls, beyondPanel>>

\* a caller enters doAuthGet or doGrafanaGet: attempt := 0
PanelCall(kind) ==
    /\ ppc = "idle"
    /\ pcalls < MaxCalls
    /\ pkind' = kind
    /\ attempt' = 0
    /\ ptrace' = <<>>
    /\ presult' = [kind |-> "none"]
    /\ pcalls' = pcalls + 1
    /\ ppc' = "top"
    /\ UNCHANGED <<token, cookies, grafanaCookies, beyondPanel>>

\* return nil, fmt.Errorf(...)
PanelFail(text) ==
    /\ presult' = [kind |-> "error", text |-> text]
    /\ ppc' = "idle"

\* the end of an attempt that says continue: attempt++, and the loop test
PanelContinue ==
    /\ attempt' = attempt + 1
    /\ IF attempt + 1 < MaxAttempts
          THEN ppc' = "top" /\ UNCHANGED presult
          ELSE PanelFail("request failed after re-login")

\* doAuthGet, top of the loop with no token: c.Login()
AuthLogin ==
    /\ ppc = "top" /\ pkind = "auth"
    /\ token = ""
    /\ \E resp \in LoginResponses :
          LET l == Login(resp)
          IN  /\ ptrace' = Append(ptrace, Sent("login", resp.status, ~l.err))
              /\ token' = l.token
              /\ cookies' = l.cookies
              /\ IF l.err
                    THEN PanelFail("panel login failed")
                    ELSE ppc' = "get" /\ UNCHANGED presult
    /\ UNCHANGED <<grafanaCookies, pkind, attempt, pcalls, beyondPanel>>

\* faulty variant: the 401 of the first attempt retried with the stored token
AuthGet_KeepToken ==
    /\ pkind = "auth"
    /\ ppc = "get" \/ (ppc = "top" /\ token # "")
    /\ \E code \in GetStatuses :
          /\ ptrace' = Append(ptrace, Sent("get", code, code = 200))
          /\ IF code = 0
                THEN /\ PanelFail("request failed")
                     /\ UNCHANGED <<token, cookies, attempt>>
                ELSE IF code = 401 /\ attempt = 0
                THEN /\ PanelContinue
                     /\ UNCHANGED <<token, cookies>>
                ELSE IF code # 200
                THEN /\ PanelFail("request returned status")
                     /\ UNCHANGED <<token, cookies, attempt>>
                ELSE /\ presult' = [kind |-> "body"]
                     /\ ppc' = "idle"
                     /\ UNCHANGED <<token, cookies, attempt>>
    /\ UNCHANGED <<grafanaCookies, pkind, pcalls, beyondPanel>>

\* doAuthGet, the GET with X-Auth-Token and the cookies, and what follows
\* from its status
AuthGet ==
    /\ pkind = "auth"
    /\ ppc = "get" \/ (ppc = "top" /\ token # "")
    /\ \E code \in GetStatuses :
          /\ ptrace' = Append(ptrace, Sent("get", code, code = 200))
          /\ IF code = 0
                THEN /\ PanelFail("request failed")
                     /\ UNCHANGED <<token, cookies, attempt>>
                ELSE IF code = 401 /\ attempt = 0
                THEN /\ token' = ""
                     /\ cookies' = <<>>
                     /\ PanelContinue
                ELSE IF code # 200
                THEN /\ PanelFail("request returned status")
                     /\ UNCHANGED <<token, cookies, attempt>>
                ELSE /\ presult' = [kind |-> "body"]
                     /\ ppc' = "idle"
                     /\ UNCHANGED <<token, cookies, attempt>>
    /\ UNCHANGED <<grafanaCookies, pkind, pcalls, beyondPanel>>

\* doGrafanaGet, top of the loop with no Grafana cookies: c.loginGrafana()
GrafLogin ==
    /\ ppc = "top" /\ pkind = "grafana"
    /\ Len(grafanaCookies) = 0
    /\ \E resp \in LoginResponses, sso \in SsoResponses :
          LET l == LoginGrafana(resp, sso)
          IN  /\ ptrace' = ptrace \o l.sent
              /\ token' = l.token
              /\ cookies' = l.cookies
              /\ grafanaCookies' = l.grafanaCookies
              /\ IF l.err
                    THEN PanelFail("grafana login failed")
                    ELSE ppc' = "get" /\ UNCHANGED presult
    /\ UNCHANGED <<pkind, attempt, pcalls, beyondPanel>>

\* doGrafanaGet, the GET with the Grafana and the panel cookies, and what
\* follows from its status
GrafGet ==
    /\ pkind = "grafana"
    /\ ppc = "get" \/ (ppc = "top" /\ Len(grafanaCookies) # 0)
    /\ \E code \in GetStatuses :
          /\ ptrace' = Append(ptrace, Sent("get", code, code = 200))
          /\ IF code = 0
                THEN /\ PanelFail("grafana request failed")
                     /\ UNCHANGED <<grafanaCookies, attempt>>
                ELSE IF code = 401 /\ attempt = 0
                THEN /\ grafanaCookies' = <<>>
                     /\ PanelContinue
                ELSE IF code # 200
                THEN /\ PanelFail("grafana request status")
                     /\ UNCHANGED <<grafanaCookies, attempt>>
                ELSE /\ presult' = [kind |-> "body"]
                     /\ ppc' = "idle"
                     /\ UNCHANGED <<grafanaCookies, attempt>>
    /\ UNCHANGED <<token, cookies, pkind, pcalls, beyondPanel>>

----------------------------------------------------------------------------
(* The arithmetic of getClusterUsage (steps 5 to 7), on its own: the server *)
(* model above follows the handler's calls and carries the time stamp of    *)
(* the body; here the two Nova answers are drawn and the figures of the     *)
(* body are computed from them.  A GiB figure is float64(MB) / 1024.0,      *)
(* which in 1/1024ths is the number of MB.                                  *)

beyondFigures == <<runVars, serverVars, concVars, panelVars, billingVars>>

\* the statuses Nova reports, two of them shelved
Statuses == {"ACTIVE", "SHUTOFF", "SHELVED", "SHELVED_OFFLOADED", "ERROR", "BUILD"}

Flavors == {[VCPUs |-> 1, RAM |-> 1024], [VCPUs |-> 2, RAM |-> 4096]}

NovaServers == [Status : Statuses, Flavor : Flavors]

RECURSIVE ListsUpTo(_, _)
ListsUpTo(S, n) ==
    IF n = 0 THEN {<<>>}
    ELSE LET shorter == ListsUpTo(S, n - 1)
         IN  shorter \cup {Append(l, x) : l \in shorter, x \in S}

\* what ListAllServers may return
ServerLists == ListsUpTo(NovaServers, MaxServers)

\* what GetHypervisorStats may return: a capacity, and a use that is below
\* the flavors of the servers, between them and the capacity, or above it
HypervisorStatsSet ==
    {[fetched |-> TRUE, VCPUs |-> c, VCPUsUsed |-> u, MemoryMB |-> 8192,
      MemoryMBUsed |-> m, FreeRAMMB |-> 8192 - m] :
        c \in {4, 8}, u \in {0, 1, 3, 6}, m \in {512, 6144}}

\* the switch on server.Status: which cases add the flavor to the reserved sums
AddsToReserved(st) ==
    CASE st = "ACTIVE" -> TRUE
      [] st = "SHUTOFF" -> TRUE
      [] st \in {"SHELVED_OFFLOADED", "SHELVED"} -> FALSE
      [] OTHER -> TRUE

\* the counter that the switch increments for a status
CounterOf(st) ==
    CASE st = "ACTIVE" -> "activeVMs"
      [] st = "SHUTOFF" -> "shutoffVMs"
      [] st \in {"SHELVED_OFFLOADED", "SHELVED"} -> "shelvedVMs"
      [] OTHER -> "otherVMs"

\* for _, server := range servers: the sums and counters after the loop
RECURSIVE Tally(_)
Tally(l) ==
    IF l = <<>>
       THEN [reservedVCPUs |-> 0, reservedRAMMB |-> 0, activeVMs |-> 0,
             shutoffVMs |-> 0, shelvedVMs |-> 0, otherVMs |-> 0]
       ELSE LET before == Tally(SubSeq(l, 1, Len(l) - 1))
                server == l[Len(l)]
                counted == [before EXCEPT ![CounterOf(server.Status)] = @ + 1]
            IN  IF AddsToReserved(server.Status)
                   THEN [counted EXCEPT
                            !.reservedVCPUs = @ + server.Flavor.VCPUs,
                            !.reservedRAMMB = @ + server.Flavor.RAM]
                   ELSE counted

\* if x < 0 { x = 0 }
NotBelowZero(x) == IF x < 0 THEN 0 ELSE x

\* steps 5 to 7 of getClusterUsage: the ClusterUsage for the two answers
ClusterFigures(hs, l) ==
    LET t == Tally(l)
    IN  [kind |-> "figures",
         TotalVMs |-> Len(l),
         ActiveVMs |-> t.activeVMs,
         ShutoffVMs |-> t.shutoffVMs,
         ShelvedVMs |-> t.shelvedVMs,
         OtherVMs |-> t.otherVMs,
         TotalVCPUs |-> hs.VCPUs,
         TotalRAMGiB |-> hs.MemoryMB,
         ReservedVCPUs |-> t.reservedVCPUs,
         ReservedRAMGiB |-> t.reservedRAMMB,
         SystemVCPUs |-> NotBelowZero(hs.VCPUsUsed - t.reservedVCPUs),
         SystemRAMGiB |-> NotBelowZero(hs.MemoryMBUsed - t.reservedRAMMB),
         FreeVCPUs |-> NotBelowZero(hs.VCPUs - hs.VCPUsUsed),
         FreeRAMGiB |-> hs.FreeRAMMB]

\* hyperStats, err := novaClient.GetHypervisorStats(), answered
FigureStats ==
    /\ ~hyperStats.fetched
    /\ hyperStats' \in HypervisorStatsSet
    /\ UNCHANGED <<servers, figures, beyondFigures>>

\* servers, err := novaClient.ListAllServers(), answered, and the response
\* built from the two answers
FigureServers ==
    /\ hyperStats.fetched
    /\ figures.kind = "none"
    /\ servers' \in ServerLists
    /\ figures' = ClusterFigures(hyperStats, servers')
    /\ UNCHANGED <<hyperStats, beyondFigures>>

----------------------------------------------------------------------------
(* The functions of billing.go, each called once on a series of measures.   *)
(* A time stamp is a date and the second of that day.  The CPU counter is   *)
(* counted in units of 10^8 ns, so that deltaCPU / (deltaTime * n * 1e9) is *)
(* the quotient of the units by deltaTime * n * 10.  A float is an integer  *)
(* number of 2^-20ths, and every operation rounds its exact result to       *)
(* PercentBits significant bits, ties to even.  1.1 has the period 4 in     *)
(* binary, so with 13 bits it is rounded the way the 53 bits of float64     *)
(* round it, and so is 100.0 * 1.1.                                         *)

beyondBilling == <<runVars, serverVars, concVars, panelVars, figureVars>>

FracBits == 20

\* 1.0
One == Pow2(FracBits)

\* the distance between neighbouring floats around x
RECURSIVE UlpAt(_)
UlpAt(x) == IF x < Pow2(PercentBits) THEN 1 ELSE 2 * UlpAt(x \div 2)

\* the float nearest to the quotient a / b, for a >= 0 and b > 0
FloatQuot(a, b) ==
    LET u == UlpAt(a \div b)
        k == a \div (b * u)
        r == a % (b * u)
    IN  IF 2 * r < b * u THEN k * u
        ELSE IF 2 * r > b * u THEN (k + 1) * u
        ELSE IF k % 2 = 0 THEN k * u ELSE (k + 1) * u

\* a + b on floats
FloatSum(a, b) == FloatQuot(a + b, 1)

\* x * k on floats, for a whole number k
FloatTimes(x, k) == FloatQuot(x * k, 1)

\* float64(k) for a whole number k
Float(k) == k * One

\* the instants of the series: the last seconds of one day and the first of
\* the next
Timestamps ==
    {[Date |-> "2024-01-01", Second |-> 86398],
     [Date |-> "2024-01-01", Second |-> 86399],
     [Date |-> "2024-01-02", Second |-> 0],
     [Date |-> "2024-01-02", Second |-> 1]}

\* time.Parse(time.RFC3339, ts), in seconds since the first day began
Parse(ts) == (IF ts.Date = "2024-01-01" THEN 0 ELSE 86400) + ts.Second

\* t.Format("2006-01-02")
DateKey(ts) == ts.Date

\* the values of the cumulative CPU counter, in units of 10^8 ns
CounterValues == {0, 5, 11, 12}

\* the values of the memory usage metric, in MB
UsedValues == {100, 300}

\* the value of the memory total metric, in MB
TotalValues == {400}

SeriesOver(values) == ListsUpTo([Timestamp : Timestamps, Value : values], MaxMeasures)

\* the series Gnocchi returns: in the order of their time stamps
Ordered(l) == \A i \in 1..(Len(l) - 1) : Parse(l[i].Timestamp) <= Parse(l[i + 1].Timestamp)

CPUSeries == {l \in SeriesOver(CounterValues) : Ordered(l)}

MemorySeries == {l \in SeriesOver(UsedValues) : Ordered(l)}

\* maxAllowed * 1.1, with maxAllowed := 100.0
MaxAllowedWithMargin == FloatTimes(FloatQuot(Float(11), 10), 100)

\* (deltaCPU / (deltaTime * float64(numVCPUs) * 1e9)) * 100
CPUPercent(deltaCPU, deltaTime, n) ==
    FloatTimes(FloatQuot(Float(deltaCPU), deltaTime * n * 10), 100)

\* CPUUsageStats{}
NoCPUUsage == [TotalDataPoints |-> 0, UsageByHour |-> <<>>, UsageByDay |-> <<>>]

\* the body of the loop for i, on the lists and the map built so far: the
\* interval is skipped, or its percentage is appended and added to its day
CPUInterval(acc, m, n, i) ==
    LET prev == m[i - 1]
        curr == m[i]
        deltaCPU == curr.Value - prev.Value
        deltaTime == Parse(curr.Timestamp) - Parse(prev.Timestamp)
        cpuPercent == CPUPercent(deltaCPU, deltaTime, n)
        dateKey == DateKey(curr.Timestamp)
        exists == dateKey \in DOMAIN acc.daily
        daily == IF exists THEN acc.daily[dateKey]
                 ELSE [AverageCPU |-> 0, MaxCPU |-> cpuPercent, MinCPU |-> cpuPercent]
        added == [AverageCPU |-> FloatSum(daily.AverageCPU, cpuPercent),
                  MaxCPU |-> IF cpuPercent > daily.MaxCPU THEN cpuPercent ELSE daily.MaxCPU,
                  MinCPU |-> IF cpuPercent < daily.MinCPU THEN cpuPercent ELSE daily.MinCPU]
    IN  IF deltaCPU < 0 THEN acc
        ELSE IF deltaTime <= 0 THEN acc
        ELSE IF cpuPercent < 0 \/ cpuPercent > MaxAllowedWithMargin THEN acc
        ELSE [hourly |-> Append(acc.hourly,
                                [Timestamp |-> curr.Timestamp, CPUPercent |-> cpuPercent]),
              daily |-> [d \in DOMAIN acc.daily \cup {dateKey} |->
                            IF d = dateKey THEN added ELSE acc.daily[d]]]

\* for i := 1; i < len(measures); i++, up to the 1-based index i
RECURSIVE CPULoop(_, _, _)
CPULoop(m, n, i) ==
    IF i < 2 THEN [hourly |-> <<>>, daily |-> <<>>]
    ELSE CPUInterval(CPULoop(m, n, i - 1), m, n, i)

\* the number of entries of hourlyUsages that fall on a date
DataPointsThisDay(hourly, date) ==
    Cardinality({j \in 1..Len(hourly) : DateKey(hourly[j].Timestamp) = date})

\* CalculateCPUUsage(measures, numVCPUs): the count, the points and the days
\* of the CPUUsageStats
CalculateCPUUsage(m, vcpus) ==
    IF Len(m) < 2 THEN NoCPUUsage
    ELSE LET n == IF vcpus <= 0 THEN 1 ELSE vcpus
             done == CPULoop(m, n, Len(m))
         IN  [TotalDataPoints |-> Len(done.hourly),
              UsageByHour |-> done.hourly,
              UsageByDay |->
                  [d \in DOMAIN done.daily |->
                      [done.daily[d] EXCEPT
                          !.AverageCPU =
                              FloatQuot(@, DataPointsThisDay(done.hourly, d))]]]

\* MemoryUsageStats{}
NoMemoryUsage == [TotalMemoryMB |-> 0, UsageByDay |-> <<>>]

\* for i, usageMeasure := range usageMeasures, up to index i: the sums of
\* each day
RECURSIVE MemoryLoop(_, _, _)
MemoryLoop(um, totalMemoryMB, i) ==
    IF i = 0 THEN <<>>
    ELSE LET before == MemoryLoop(um, totalMemoryMB, i - 1)
             usedMB == Float(um[i].Value)
             percent == FloatTimes(FloatQuot(usedMB, totalMemoryMB), 100)
             dateKey == DateKey(um[i].Timestamp)
             daily == IF dateKey \in DOMAIN before THEN before[dateKey]
                      ELSE [AverageUsedMB |-> 0, AveragePercent |-> 0]
             added == [AverageUsedMB |-> FloatSum(daily.AverageUsedMB, usedMB),
                       AveragePercent |-> FloatSum(daily.AveragePercent, percent)]
         IN  [d \in DOMAIN before \cup {dateKey} |->
                 IF d = dateKey THEN added ELSE before[d]]

\* CalculateMemoryUsage(usageMeasures, totalMeasures): the total and the
\* days of the MemoryUsageStats
CalculateMemoryUsage(um, tm) ==
    IF Len(um) = 0 \/ Len(tm) = 0 THEN NoMemoryUsage
    ELSE LET totalMemoryMB == tm[1].Value
             dailyUsageMap == MemoryLoop(um, totalMemoryMB, Len(um))
             perDay == Len(um) \div Cardinality(DOMAIN dailyUsageMap)
             dataPointsPerDay == IF perDay = 0 THEN 1 ELSE perDay
         IN  [TotalMemoryMB |-> Float(totalMemoryMB),
              UsageByDay |->
                  [d \in DOMAIN dailyUsageMap |->
                      [AverageUsedMB |->
                           FloatQuot(dailyUsageMap[d].AverageUsedMB, dataPointsPerDay),
                       AveragePercent |->
                           FloatQuot(dailyUsageMap[d].AveragePercent, dataPointsPerDay)]]]

\* a caller computes the CPU usage of a series
CallCalculateCPUUsage ==
    /\ called = "none"
    /\ \E m \in CPUSeries, n \in {0, 1, 2} :
          /\ cpuMeasures' = m
          /\ numVCPUs' = n
          /\ cpuUsage' = CalculateCPUUsage(m, n)
    /\ called' = "CalculateCPUUsage"
    /\ UNCHANGED <<usageMeasures, totalMeasures, memUsage, beyondBilling>>

\* a caller computes the memory usage of a series
CallCalculateMemoryUsage ==
    /\ called = "none"
    /\ \E um \in MemorySeries, tm \in ListsUpTo([Timestamp : {CHOOSE ts \in Timestamps : ts.Second = 0}, Value : TotalValues], 1) :
          /\ usageMeasures' = um
          /\ totalMeasures' = tm
          /\ memUsage' = CalculateMemoryUsage(um, tm)
    /\ called' = "CalculateMemoryUsage"
    /\ UNCHANGED <<cpuMeasures, numVCPUs, cpuUsage, beyondBilling>>

----------------------------------------------------------------------------
(* Specifications *)

\* the steps of the program: the request goroutine and the per-VM goroutines
Progress ==
    \/ LoadDomainNames(DomainLists)
    \/ GetAdminToken
    \/ ResolveDomain(ProjectLists)
    \/ GetAllInstances(Inventories)
    \/ Dispatch
    \/ Wait
    \/ Respond
    \/ \E i \in TaskIds : Acquire(i)
    \/ \E i \in TaskIds : CancelLock(i)
    \/ \E i \in TaskIds : CancelAppend(i)
    \/ \E i \in TaskIds : CpuReturn(i, CpuMeasures)
    \/ \E i \in TaskIds : CpuErrLock(i)
    \/ \E i \in TaskIds : CpuErrAppend(i)
    \/ \E i \in TaskIds : CpuAddLock(i)
    \/ \E i \in TaskIds : CpuAdd(i)
    \/ \E i \in TaskIds : MemReturn(i, MemMeasures)
    \/ \E i \in TaskIds : MemErrLock(i)
    \/ \E i \in TaskIds : MemErrAppend(i)
    \/ \E i \in TaskIds : MemAddLock(i)
    \/ \E i \in TaskIds : MemAdd(i)
    \/ \E i \in TaskIds : Release(i)

\* a request with small inputs, every collaborator free to fail and the
\* deadline free to pass at any moment
Next == Progress \/ Expire

Spec == Init /\ [][Next]_vars

\* the Go scheduler runs every runnable goroutine, and every call returns
FairSpec == Spec /\ WF_vars(Progress)

\* a request whose fan-out has more goroutines than the semaphore has permits,
\* served before the deadline
NextFan ==
    \/ LoadDomainNames(FanDomainLists)
    \/ GetAdminToken
    \/ ResolveDomain(FanProjectLists)
    \/ GetAllInstances(FanInventories)
    \/ Dispatch
    \/ Wait
    \/ Respond
    \/ \E i \in TaskIds : Acquire(i)
    \/ \E i \in TaskIds : Release(i)

SpecFan == Init /\ [][NextFan]_vars

FairFan == SpecFan /\ WF_vars(NextFan)

\* a request whose goroutines contend for the permits and for the mutexes,
\* served before the deadline
NextContend ==
    \/ LoadDomainNames(FanDomainLists)
    \/ GetAdminToken
    \/ ResolveDomain(FanProjectLists)
    \/ GetAllInstances(ContendInventories)
    \/ Dispatch
    \/ Wait
    \/ Respond
    \/ \E i \in TaskIds : Acquire(i)
    \/ \E i \in TaskIds : CpuReturn(i, ContendCpuMeasures(i))
    \/ \E i \in TaskIds : CpuErrLock(i)
    \/ \E i \in TaskIds : CpuErrAppend(i)
    \/ \E i \in TaskIds : CpuAddLock(i)
    \/ \E i \in TaskIds : CpuAdd(i)
    \/ \E i \in TaskIds : Release(i)

SpecContend == Init /\ [][NextContend]_vars

\* a request over instances that lack one metric key or both, in one domain
\* that holds both projects
NextKeys ==
    \/ LoadDomainNames(FanDomainLists)
    \/ GetAdminToken
    \/ ResolveDomain(FanProjectLists)
    \/ GetAllInstances(KeyInventories)
    \/ Dispatch
    \/ Wait
    \/ Respond
    \/ Expire
    \/ \E i \in TaskIds : Acquire(i)
    \/ \E i \in TaskIds : CancelLock(i)
    \/ \E i \in TaskIds : CancelAppend(i)
    \/ \E i \in TaskIds : CpuReturn(i, CpuMeasures)
    \/ \E i \in TaskIds : CpuErrLock(i)
    \/ \E i \in TaskIds : CpuErrAppend(i)
    \/ \E i \in TaskIds : CpuAddLock(i)
    \/ \E i \in TaskIds : CpuAdd(i)
    \/ \E i \in TaskIds : MemReturn(i, MemMeasures)
    \/ \E i \in TaskIds : MemErrLock(i)
    \/ \E i \in TaskIds : MemErrAppend(i)
    \/ \E i \in TaskIds : MemAddLock(i)
    \/ \E i \in TaskIds : MemAdd(i)
    \/ \E i \in TaskIds : Release(i)

SpecKeys == Init /\ [][NextKeys]_vars

\* a request over three instances listed in any order, served before the
\* deadline, whose samples make the sums round
NextOrder ==
    \/ LoadDomainNames(FanDomainLists)
    \/ GetAdminToken
    \/ ResolveDomain(FanProjectLists)
    \/ GetAllInstances(OrderInventories)
    \/ Dispatch
    \/ Wait
    \/ Respond
    \/ \E i \in TaskIds : Acquire(i)
    \/ \E i \in TaskIds : CpuReturn(i, OrderCpuMeasures)
    \/ \E i \in TaskIds : CpuErrLock(i)
    \/ \E i \in TaskIds : CpuErrAppend(i)
    \/ \E i \in TaskIds : CpuAddLock(i)
    \/ \E i \in TaskIds : CpuAdd(i)
    \/ \E i \in TaskIds : MemReturn(i, OrderMemMeasures)
    \/ \E i \in TaskIds : MemErrLock(i)
    \/ \E i \in TaskIds : MemErrAppend(i)
    \/ \E i \in TaskIds : MemAddLock(i)
    \/ \E i \in TaskIds : MemAdd(i)
    \/ \E i \in TaskIds : Release(i)

SpecOrder == Init /\ [][NextOrder]_vars

\* the server from its start, answering requests on every route with every
\* kind of Authorization header, while time passes
NextServer ==
    \/ Boot
    \/ Arrive(Routes, Headers)
    \/ Route
    \/ HealthCheck
    \/ BearerAuth
    \/ Handler
    \/ ClusterGetAdminToken
    \/ ClusterGetHypervisorStats
    \/ ClusterListAllServers
    \/ Tick

SpecServer == Init /\ [][NextServer]_vars

\* the server with the functions of cache.go called at any moment, while
\* requests for the cluster usage are served
NextCache ==
    \/ Boot
    \/ Arrive(ClusterRoutes, ClusterHeaders)
    \/ Route
    \/ BearerAuth
    \/ ClusterGetAdminToken
    \/ ClusterGetHypervisorStats
    \/ ClusterListAllServers
    \/ Tick
    \/ GetCachedClusterUsage
    \/ SetCached

SpecCache == Init /\ [][NextCache]_vars

\* requests for the total usage that arrive together and run side by side
NextConcurrent ==
    \/ \E r \in Requests : ConcArrive(r)
    \/ \E r \in Requests : ConcGetAdminToken(r)
    \/ \E r \in Requests : ConcStoreProject(r)
    \/ \E r \in Requests : ConcLogProject(r)
    \/ \E r \in Requests : ConcAdd(r)
    \/ \E r \in Requests : ConcRespond(r)

SpecConcurrent == Init /\ [][NextConcurrent]_vars

\* the panel client from the start of the program, with calls of both
\* helpers and every answer of the panel and of Grafana
NextPanel ==
    \/ PanelStart
    \/ PanelCall("auth")
    \/ PanelCall("grafana")
    \/ AuthLogin
    \/ AuthGet
    \/ GrafLogin
    \/ GrafGet

SpecPanel == Init /\ [][NextPanel]_vars

\* getClusterUsage on every pair of answers of Nova
NextFigures ==
    \/ FigureStats
    \/ FigureServers

SpecFigures == Init /\ [][NextFigures]_vars

\* the two calculations of billing.go on every short series
NextBilling ==
    \/ CallCalculateCPUUsage
    \/ CallCalculateMemoryUsage

SpecBilling == Init /\ [][NextBilling]_vars

----------------------------------------------------------------------------
(* Properties *)

RECURSIVE SumOver(_, _)
SumOver(f, S) ==
    IF S = {} THEN 0
    ELSE LET x == CHOOSE y \in S : TRUE IN f[x] + SumOver(f, S \ {x})

\* the error records of instance id with message msg
ErrorsOf(id, msg) ==
    {k \in 1..Len(usageErrors) :
        usageErrors[k].InstanceID = id /\ usageErrors[k].Error = msg}

\* the error records of the resolve loop (they carry no instance id)
DomainErrors == {k \in 1..Len(usageErrors) : usageErrors[k].InstanceID = 0}

InstanceOf(i) == targets[i].Instance

\* the call of goroutine i returned at least one sample
HasSample(res, i) == res[i].ok /\ Len(res[i].val) > 0

Responded == pc = "done" /\ response.kind = "usage"

\* C1: at no time do more goroutines hold a semaphore permit than the
\* semaphore has capacity (10), and so no more than 10 GetMetricMeasures calls
\* are in flight, however many VMs are in scope (here: more VMs than permits).
C1_BoundedConcurrency ==
    /\ Cardinality(Holding) <= SemCap
    /\ Cardinality(InFlight) <= SemCap
    /\ semaphore = Cardinality(Holding)

\* all permits are taken and a further goroutine is blocked on the send
C1_Witness ==
    /\ Cardinality(Holding) = SemCap
    /\ \E i \in TaskIds : tpc[i] = "spawned"

\* C2: for every instance and each metric kind, its sample is added to the
\* running total at most once during a run, under every interleaving.
C2_NoDoubleCount ==
    \A v \in DOMAIN cpuAdds : cpuAdds[v] \in {0, 1} /\ memAdds[v] \in {0, 1}

\* two goroutines have finished; one instance was added to both totals, the
\* other to neither
C2_Witness ==
    /\ pc = "done"
    /\ Len(targets) = 2
    /\ \E v, u \in DOMAIN cpuAdds :
          /\ cpuAdds[v] = 1 /\ memAdds[v] = 1
          /\ cpuAdds[u] = 0 /\ memAdds[u] = 0
          /\ \E i \in TaskIds : InstanceOf(i).ID = u

\* C3: in the response, cpu_cores_used is the sum of the latest vcpus sample
\* over exactly the dispatched VMs whose vcpus call returned one; a VM whose
\* vcpus call failed adds nothing and has exactly one vcpus error; total_vms
\* counts every dispatched VM.
C3_CpuTotal ==
    Responded =>
        /\ response.CPUCoresUsed =
              SumOver([i \in TaskIds |-> cpuRes[i].val[Len(cpuRes[i].val)]],
                      {i \in TaskIds : HasSample(cpuRes, i)})
        /\ \A i \in TaskIds :
              /\ cpuRes[i] = Failed =>
                    /\ cpuAdds[InstanceOf(i).ID] = 0
                    /\ Cardinality(ErrorsOf(InstanceOf(i).ID, "vcpus_measures")) = 1
              /\ cpuRes[i] # Failed =>
                    ErrorsOf(InstanceOf(i).ID, "vcpus_measures") = {}
        /\ response.TotalVMs = Len(targets)

\* two VMs, one vcpus call failed and the other returned 1.0, 1.5: the total
\* is 1.5, with one vcpus error and total_vms 2
C3_Witness ==
    /\ Responded
    /\ Len(targets) = 2
    /\ \E i, j \in TaskIds :
          /\ cpuRes[i] = Failed
          /\ cpuRes[j] = Ok(<<1024, 1536>>)
    /\ response.CPUCoresUsed = 1536
    /\ response.TotalVMs = 2
    /\ Cardinality({k \in 1..Len(response.Errors) :
                       response.Errors[k].Error = "vcpus_measures"}) = 1

C5_TotalVMsIsScopedCount ==
    /\ pc \in {"dispatch", "wait", "respond"} \/ Responded =>
          /\ totalVMs = Len(targets)
          /\ Len(tpc) = Len(targets)
    /\ Responded => response.TotalVMs = Len(targets)

\* a response counting two VMs of which one was cancelled and one failed
C5_Witness ==
    /\ Responded
    /\ response.TotalVMs = 2
    /\ \E i, j \in TaskIds :
          /\ ctxSeen[i] = "cancelled"
          /\ cpuRes[j] = Failed

\* C6: when the request reaches the response stage, the status is 200 exactly
\* if the final error list is empty and 206 exactly if it is not; the list
\* holds the per-domain errors of scope resolution and the per-VM errors.
C6_StatusFollowsErrors ==
    Responded =>
        /\ response.Errors = usageErrors
        /\ status \in {200, 206}
        /\ status = 200 <=> Len(usageErrors) = 0
        /\ status = 206 <=> Len(usageErrors) > 0

\* a 206 whose error list holds a per-domain error and a per-VM error
C6_Witness ==
    /\ Responded
    /\ status = 206
    /\ DomainErrors # {}
    /\ \E k \in 1..Len(usageErrors) : usageErrors[k].InstanceID # 0

\* C7 (as claimed): every aborted request answers 500 or 401, having
\* dispatched no goroutine and accumulated nothing.
C7_AbortIs500Or401 ==
    (pc = "done" /\ response.kind = "error") =>
        /\ status \in {500, 401}
        /\ tpc = <<>>
        /\ totalCPUCoresUsed = 0 /\ totalRAMUsedGB = 0

\* C7 (amended): a request is aborted only by the step that loads the domain
\* list (500 unreadable, 400 empty), acquires the admin token (401) or lists
\* the inventory (500); the abort is the only thing written, no goroutine was
\* dispatched, no metric call made and no totals are returned.  Every step
\* that records a failure in the error list leaves the request running.
C7_OnlyFatalAbort ==
    [][ /\ response'.kind = "error" /\ response.kind # "error" =>
              /\ pc \in {"load", "auth", "inventory"}
              /\ pc' = "done"
              /\ written' = 1
              /\ status' \in {500, 400, 401}
              /\ status' = 400 => pc = "load" /\ domainNames' = <<>>
              /\ status' = 401 <=> pc = "auth"
              /\ tpc' = <<>> /\ cpuRes' = <<>> /\ memRes' = <<>>
              /\ totalCPUCoresUsed' = 0 /\ totalRAMUsedGB' = 0
        /\ usageErrors' # usageErrors =>
              /\ response'.kind = "none"
              /\ pc' # "done"
        /\ response.kind = "error" => response'.kind = "error" /\ written' = 1
      ]_vars

\* the empty domain list answered with 400
C7_Witness ==
    /\ pc = "done"
    /\ response.kind = "error"
    /\ status = 400
    /\ written = 1
    /\ tpc = <<>>

\* the resolve loop has run to its end (or to its break)
ResolveOver ==
    /\ pc \in {"inventory", "dispatch", "wait", "respond", "done"}
    /\ idx > 1 \/ usageErrors # <<>>

\* C8 (as claimed): with no domain resolved the request fails and nothing of
\* the aggregation (inventory listing, dispatch, a response with totals) runs.
C8_EmptyScopeFails ==
    (ResolveOver /\ DOMAIN projectToDomain = {}) =>
        /\ pc \in {"inventory", "done"}
        /\ pc = "done" => response.kind = "error"

\* C8 (amended): with no domain resolved the request is not aborted for that
\* reason: every attempted domain has left an error, the inventory is still
\* listed, and if that succeeds no VM is in scope, no goroutine is dispatched
\* and the response is a 206 with total_vms 0, zero totals and the per-domain
\* errors; the request fails (500) only if the inventory listing fails.
C8_EmptyScopeIsPartial ==
    (ResolveOver /\ DOMAIN projectToDomain = {}) =>
        /\ usageErrors # <<>>
        /\ DomainErrors = 1..Len(usageErrors)
        /\ targets = <<>> /\ tpc = <<>>
        /\ totalCPUCoresUsed = 0 /\ totalRAMUsedGB = 0
        /\ pc = "done" =>
              \/ /\ response.kind = "usage"
                 /\ status = 206
                 /\ response.TotalVMs = 0
                 /\ response.CPUCoresUsed = 0 /\ response.RAMUsedGB = 0
                 /\ response.Errors = usageErrors
              \/ /\ response.kind = "error"
                 /\ status = 500

\* no domain resolved, a non-empty inventory listed, and a 206 returned
C8_Witness ==
    /\ Responded
    /\ DOMAIN projectToDomain = {}
    /\ Len(domainNames) = 2
    /\ DOMAIN cpuAdds # {}
    /\ status = 206
    /\ response.TotalVMs = 0

C9_FanAlwaysResponds ==
    (pc = "dispatch") ~>
        (Responded /\ written = 1 /\ semaphore = 0
            /\ Len(tpc) = Len(targets) /\ \A i \in TaskIds : tpc[i] = "done")

C10_CancelledTask ==
    /\ \A i \in TaskIds :
          ctxSeen[i] = "cancelled" =>
              /\ cpuRes[i] = NotCalled /\ memRes[i] = NotCalled
              /\ tpc[i] \in {"cancelLock", "cancelAppend", "release", "done"}
              /\ cpuAdds[InstanceOf(i).ID] = 0 /\ memAdds[InstanceOf(i).ID] = 0
              /\ LET mine == {k \in 1..Len(usageErrors) :
                                 usageErrors[k].InstanceID = InstanceOf(i).ID}
                 IN IF tpc[i] \in {"release", "done"}
                    THEN /\ Cardinality(mine) = 1
                         /\ \A k \in mine :
                               usageErrors[k] =
                                   UsageError(targets[i].DomainName, InstanceOf(i).ID,
                                              InstanceOf(i).ProjectID, "ctx_instance")
                    ELSE mine = {}
    /\ (Responded /\ \A i \in TaskIds : ctxSeen[i] = "cancelled") =>
          /\ response.CPUCoresUsed = 0
          /\ response.RAMUsedGB = 0
          /\ Cardinality({k \in 1..Len(response.Errors) :
                             response.Errors[k].Error = "ctx_instance"}) = Len(targets)

\* several VMs with metric keys, all of them started after the deadline
C10_Witness ==
    /\ Responded
    /\ Len(targets) >= 2
    /\ \A i \in TaskIds :
          /\ ctxSeen[i] = "cancelled"
          /\ InstanceOf(i).Metrics # {}
    /\ response.CPUCoresUsed = 0
    /\ response.RAMUsedGB = 0
    /\ status = 206

\* goroutine i has run to its deferred calls
Finished(i) == tpc[i] \in {"release", "done"}

\* all error records of instance id
AllErrorsOf(id) == {k \in 1..Len(usageErrors) : usageErrors[k].InstanceID = id}

\* C11: a goroutine whose vcpus call failed records exactly one error, the
\* vcpus-measures one, for that call, adds nothing to the CPU total, and goes
\* on to the memory part: if the instance has a memory key the memory call is
\* made, and if it returns a sample the sample is added to the RAM total.
C11_CpuFailureContinues ==
    \A i \in TaskIds :
        cpuRes[i] = Failed =>
            /\ tpc[i] \notin {"cpuFetch", "cpuAddLock", "cpuAdd"}
            /\ cpuAdds[InstanceOf(i).ID] = 0
            /\ Cardinality(ErrorsOf(InstanceOf(i).ID, "vcpus_measures")) =
                  IF tpc[i] \in {"cpuErrLock", "cpuErrAppend"} THEN 0 ELSE 1
            /\ Finished(i) =>
                  /\ "memory" \in InstanceOf(i).Metrics <=> memRes[i] # NotCalled
                  /\ HasSample(memRes, i) => memAdds[InstanceOf(i).ID] = 1
                  /\ memRes[i] = Failed =>
                        Cardinality(AllErrorsOf(InstanceOf(i).ID)) = 2

\* one VM whose vcpus call failed and whose memory call returned 2048 MB: the
\* response has cpu 0, ram 2.0 and the one vcpus error
C11_Witness ==
    /\ Responded
    /\ Len(targets) = 1
    /\ cpuRes[1] = Failed
    /\ memRes[1] = Ok(<<1024 * 1024, 2048 * 1024>>)
    /\ response.CPUCoresUsed = 0
    /\ response.RAMUsedGB = 2048
    /\ Len(response.Errors) = 1
    /\ response.Errors[1].Error = "vcpus_measures"

\* C12: for each metric kind, a goroutine whose instance has no key of that
\* kind makes no call for it, records no failure of it and adds nothing to
\* its total; an instance with neither key has no error record at all unless
\* its goroutine was cancelled.
C12_AbsentKeyIsSilent ==
    \A i \in TaskIds :
        /\ "vcpus" \notin InstanceOf(i).Metrics =>
              /\ cpuRes[i] = NotCalled
              /\ tpc[i] \notin {"cpuFetch", "cpuErrLock", "cpuErrAppend",
                                 "cpuAddLock", "cpuAdd"}
              /\ cpuAdds[InstanceOf(i).ID] = 0
              /\ ErrorsOf(InstanceOf(i).ID, "vcpus_measures") = {}
        /\ "memory" \notin InstanceOf(i).Metrics =>
              /\ memRes[i] = NotCalled
              /\ tpc[i] \notin {"memFetch", "memErrLock", "memErrAppend",
                                 "memAddLock", "memAdd"}
              /\ memAdds[InstanceOf(i).ID] = 0
              /\ ErrorsOf(InstanceOf(i).ID, "memory_measures") = {}
        /\ (InstanceOf(i).Metrics = {} /\ ctxSeen[i] # "cancelled") =>
              AllErrorsOf(InstanceOf(i).ID) = {}

\* three VMs answered before the deadline: vcpus only, memory only, neither;
\* both calls returned a sample and the response is a 200 without errors
C12_Witness ==
    /\ Responded
    /\ Len(targets) = 3
    /\ ~ctxErr
    /\ cpuRes = <<Ok(<<2048>>), NotCalled, NotCalled>>
    /\ memRes = <<NotCalled, Ok(<<1024 * 1024, 2048 * 1024>>), NotCalled>>
    /\ response.CPUCoresUsed = 2048
    /\ response.RAMUsedGB = 2048
    /\ response.Errors = <<>>
    /\ status = 200

\* 1 if b, else 0
Count(b) == IF b THEN 1 ELSE 0

\* the domains of the loop that left no mapping: call failed, no projects, or
\* the loop broke at them on the expired context
UnresolvedDomains ==
    {d \in DOMAIN domRes : ~domRes[d].ok \/ domRes[d].val = {}}

\* the number of error records goroutine i is to leave: one if it was
\* cancelled, one per failed call
DueErrors(i) ==
    Count(ctxSeen[i] = "cancelled") + Count(cpuRes[i] = Failed)
        + Count(memRes[i] = Failed)

AfterWait == pc = "respond" \/ Responded

\* the instance ids of the dispatched VMs
DispatchedIds == {InstanceOf(i).ID : i \in TaskIds}

\* C14 (as claimed): a VM adds to a total only if neither of its metric
\* calls failed.
C14_BothCallsNeeded ==
    AfterWait =>
        \A i \in TaskIds :
            (cpuAdds[InstanceOf(i).ID] > 0 \/ memAdds[InstanceOf(i).ID] > 0) =>
                (cpuRes[i] # Failed /\ memRes[i] # Failed)

\* C14 (amended): after wg.Wait() the totals and the error list are the sum
\* and the union over exactly the dispatched VMs, each metric on its own: a VM
\* adds its vcpus sample exactly if its vcpus call returned one and its memory
\* sample exactly if its memory call returned one, whatever the other call
\* did; a VM that was not dispatched adds nothing and has no error record.
C14_PerMetricContribution ==
    AfterWait =>
        /\ totalCPUCoresUsed =
              SumOver([i \in TaskIds |-> Last(cpuRes[i].val)],
                      {i \in TaskIds : HasSample(cpuRes, i)})
        /\ totalRAMUsedGB =
              SumOver([i \in TaskIds |-> Last(memRes[i].val) \div 1024],
                      {i \in TaskIds : HasSample(memRes, i)})
        /\ \A i \in TaskIds :
              /\ cpuAdds[InstanceOf(i).ID] = Count(HasSample(cpuRes, i))
              /\ memAdds[InstanceOf(i).ID] = Count(HasSample(memRes, i))
              /\ Cardinality(AllErrorsOf(InstanceOf(i).ID)) = DueErrors(i)
        /\ \A v \in DOMAIN cpuAdds \ DispatchedIds :
              cpuAdds[v] = 0 /\ memAdds[v] = 0 /\ AllErrorsOf(v) = {}
        /\ \A k \in 1..Len(usageErrors) :
              usageErrors[k].InstanceID \in DispatchedIds \cup {0}

\* a VM whose vcpus call returned 1.5 and whose memory call failed, next to a
\* VM outside the scope: cpu 1.5, ram 0 and the one memory error
C14_Witness ==
    /\ Responded
    /\ Len(targets) = 1
    /\ DOMAIN cpuAdds \ DispatchedIds # {}
    /\ cpuRes[1] = Ok(<<1024, 1536>>)
    /\ memRes[1] = Failed
    /\ response.CPUCoresUsed = 1536
    /\ response.RAMUsedGB = 0
    /\ Len(response.Errors) = 1
    /\ response.Errors[1].Error = "memory_measures"

\* the goroutines whose call returned a sample
CpuContributors == {i \in TaskIds : HasSample(cpuRes, i)}
MemContributors == {i \in TaskIds : HasSample(memRes, i)}

\* what goroutine i adds to each total
CpuValue(i) == Last(cpuRes[i].val)
MemValue(i) == Last(memRes[i].val) \div 1024

\* the goroutines of S in ascending order of their instance id
RECURSIVE ByInstanceId(_)
ByInstanceId(S) ==
    IF S = {} THEN <<>>
    ELSE LET i == CHOOSE x \in S : \A y \in S : InstanceOf(x).ID <= InstanceOf(y).ID
         IN <<i>> \o ByInstanceId(S \ {i})

\* every order of the goroutines of S
RECURSIVE OrdersOf(_)
OrdersOf(S) ==
    IF S = {} THEN {<<>>}
    ELSE UNION {{<<i>> \o o : o \in OrdersOf(S \ {i})} : i \in S}

\* the float sum of the values f[o[1]], f[o[2]], ... added one by one to 0
RECURSIVE SumInOrder(_, _)
SumInOrder(f, o) ==
    IF o = <<>> THEN 0
    ELSE FloatAdd(SumInOrder(f, SubSeq(o, 1, Len(o) - 1)), f[o[Len(o)]])

CpuValues == [i \in CpuContributors |-> CpuValue(i)]
MemValues == [i \in MemContributors |-> MemValue(i)]

Abs(x) == IF x < 0 THEN 0 - x ELSE x

\* C15 (as claimed): the totals of the response are fixed by the set of VMs
\* and their fetch outcomes alone: whatever the dispatch order and the
\* interleaving, they are the totals of the run in which the goroutines add in
\* ascending order of instance id.
C15_OrderIndependent ==
    Responded =>
        /\ response.CPUCoresUsed = SumInOrder(CpuValues, ByInstanceId(CpuContributors))
        /\ response.RAMUsedGB = SumInOrder(MemValues, ByInstanceId(MemContributors))

\* C15 (amended): each total is the float sum of the same contributions, taken
\* in the order in which the goroutines got the lock: it is the exact sum, and
\* so the same for every dispatch order and interleaving, whenever the exact
\* sum needs no rounding; otherwise it is one of the values that adding the
\* contributions in some order gives, within the rounding error of the
\* additions of the exact sum.
C15_SumInSomeOrder ==
    Responded =>
        LET cpu == SumOver(CpuValues, CpuContributors)
            ram == SumOver(MemValues, MemContributors)
        IN /\ \E o \in OrdersOf(CpuContributors) :
                  response.CPUCoresUsed = SumInOrder(CpuValues, o)
           /\ \E o \in OrdersOf(MemContributors) :
                  response.RAMUsedGB = SumInOrder(MemValues, o)
           /\ cpu < Pow2(MantissaBits) => response.CPUCoresUsed = cpu
           /\ ram < Pow2(MantissaBits) => response.RAMUsedGB = ram
           /\ Abs(response.CPUCoresUsed - cpu) * Pow2(MantissaBits) <= 2 * cpu
           /\ Abs(response.RAMUsedGB - ram) * Pow2(MantissaBits) <= 2 * ram

\* three VMs with vcpus 4.0, 1/1024 and 1/1024: the run that adds the two small
\* values first reports 4098/1024, and not the 4096/1024 of the run that adds
\* 4.0 first
C15_Witness ==
    /\ Responded
    /\ Len(targets) = 3
    /\ InstanceOf(1).ID = 1
    /\ cpuRes = <<Ok(<<4096>>), Ok(<<1>>), Ok(<<1>>)>>
    /\ SumInOrder(CpuValues, <<1, 2, 3>>) = 4096
    /\ response.CPUCoresUsed = 4098

\* the step is an iteration of the resolve loop
ResolveStep == pc = "resolve" /\ Len(domRes') = Len(domRes) + 1

\* C16: an iteration of the resolve loop whose identity call fails or returns
\* no project appends exactly one error record, carrying the domain's name
\* and no instance, leaves the project-to-domain map as it was and goes on
\* with the next domain of the list; so unless the deadline cuts the loop
\* short, every domain of the list has been tried when the loop is over.
C16_FailedDomainContinues ==
    [][ /\ (ResolveStep /\ Last(domRes') \in {Failed, Ok({})}) =>
              /\ Len(usageErrors') = Len(usageErrors) + 1
              /\ SubSeq(usageErrors', 1, Len(usageErrors)) = usageErrors
              /\ Last(usageErrors').DomainName = domainNames[idx]
              /\ Last(usageErrors').InstanceID = 0
              /\ Last(usageErrors').Error =
                    IF Last(domRes') = Failed THEN "list_projects" ELSE "no_projects"
              /\ projectToDomain' = projectToDomain
              /\ idx' = idx + 1
              /\ pc' = IF idx < Len(domainNames) THEN "resolve" ELSE "inventory"
        /\ (pc = "resolve" /\ pc' # "resolve") =>
              \/ Len(domRes') = Len(domainNames)
              \/ Last(domRes') = NotCalled
      ]_vars

\* two domains: the first one's call failed, the second one resolved and its
\* VMs are dispatched
C16_Witness ==
    /\ pc = "dispatch"
    /\ Len(domainNames) = 2
    /\ domRes = <<Failed, Ok({"p1", "p2"})>>
    /\ Len(usageErrors) = 1
    /\ usageErrors[1].DomainName = "d1"
    /\ DOMAIN projectToDomain = {"p1", "p2"}
    /\ Len(targets) = 2

\* C17: an iteration of the resolve loop that starts with the context expired
\* makes no identity call, appends exactly one cancellation error for its
\* domain and ends the loop: no later domain is tried or gets an error record,
\* and the map keeps the entries of the domains resolved before.
C17_DeadlineStopsResolution ==
    [][ /\ (ResolveStep /\ ctxErr) =>
              /\ domRes' = Append(domRes, NotCalled)
              /\ usageErrors' =
                    Append(usageErrors, UsageError(domainNames[idx], 0, "", "ctx_domain"))
              /\ projectToDomain' = projectToDomain
              /\ pc' = "inventory"
        /\ (ResolveStep /\ ~ctxErr) => Last(domRes') # NotCalled
        /\ pc # "resolve" =>
              /\ domRes' = domRes
              /\ projectToDomain' = projectToDomain
              /\ {k \in 1..Len(usageErrors') : usageErrors'[k].InstanceID = 0}
                    = DomainErrors
        /\ \A d \in DOMAIN domRes' : domRes'[d] = NotCalled => d = Len(domRes')
      ]_vars

\* two domains: the first resolved both projects, then the deadline
\* passed; the second has the one cancellation error, the VMs of the first are
\* dispatched
C17_Witness ==
    /\ pc = "dispatch"
    /\ Len(domainNames) = 2
    /\ domRes = <<Ok({"p1", "p2"}), NotCalled>>
    /\ DOMAIN projectToDomain = {"p1", "p2"}
    /\ usageErrors = <<UsageError("d2", 0, "", "ctx_domain")>>
    /\ Len(targets) = 2

\* the project of inst is a key of the map
InScope(inst) == inst.ProjectID \in DOMAIN projectToDomain

\* C18: the dispatched VMs are exactly the inventory entries whose project id
\* is a key of the project-to-domain map, in inventory order, each with the
\* domain the map gives; a VM outside the scope is not counted in total_vms,
\* has no goroutine (so no call), no error record and no addition to a total.
C18_ScopeFilter ==
    (pc \in {"dispatch", "wait", "respond"} \/ Responded) =>
        /\ [k \in 1..Len(targets) |-> targets[k].Instance]
              = SelectSeq(instances, InScope)
        /\ \A k \in 1..Len(targets) :
              targets[k].DomainName = projectToDomain[targets[k].Instance.ProjectID]
        /\ totalVMs = Len(SelectSeq(instances, InScope))
        /\ Len(tpc) = totalVMs
        /\ \A k \in 1..Len(instances) :
              ~InScope(instances[k]) =>
                  /\ instances[k].ID \notin DispatchedIds
                  /\ AllErrorsOf(instances[k].ID) = {}
                  /\ cpuAdds[instances[k].ID] = 0
                  /\ memAdds[instances[k].ID] = 0

\* an inventory of two VMs of which the second is outside the scope: one VM
\* is dispatched and answered for, without any error
C18_Witness ==
    /\ Responded
    /\ Len(instances) = 2
    /\ InScope(instances[1])
    /\ ~InScope(instances[2])
    /\ response.TotalVMs = 1
    /\ response.Errors = <<>>
    /\ status = 200

\* the request at hand has been answered
Answered == spc = "idle" /\ reply.status # 0

\* the Authorization header is "Bearer " followed by the configured token
ValidHeader == apiBearerToken # <<>> /\ req.auth = BearerPrefix \o apiBearerToken

\* C19: a handler of an /api/v1 route is invoked only for a request whose
\* Authorization header is exactly "Bearer " followed by the configured,
\* non-empty API_BEARER_TOKEN; with the token unset every such request is
\* answered 500 and with any other header 401, by the middleware and without
\* the handler being invoked; /health is answered by healthCheck whatever the
\* header and the configuration.
C19_BearerGate ==
    /\ invoked \notin {"none", "healthCheck"} =>
          ValidHeader /\ invoked = HandlerOf(req.route)
    /\ (Answered /\ req.route \in ApiRoutes) =>
          IF apiBearerToken = <<>>
          THEN reply.status = 500 /\ reply.by = "bearerAuth" /\ invoked = "none"
          ELSE IF ~ValidHeader
          THEN reply.status = 401 /\ reply.by = "bearerAuth" /\ invoked = "none"
          ELSE reply.by = HandlerOf(req.route) /\ invoked = reply.by
    /\ (Answered /\ req.route = "/health") =>
          reply.status = 200 /\ reply.by = "healthCheck"

\* with the token "sk" configured, a request carrying "Bearer s" is answered
\* 401 and its handler is not invoked
C19_Witness ==
    /\ Answered
    /\ apiBearerToken = <<"s", "k">>
    /\ req.auth = BearerPrefix \o <<"s">>
    /\ req.route = "/api/v1/usage/cluster"
    /\ reply.status = 401
    /\ invoked = "none"

\* C20 (as claimed): with the cache in use, a request for the cluster usage
\* that finds a live entry is answered with the stored snapshot and no Nova
\* call, and one that finds none is answered with a fresh snapshot that is in
\* the cache afterwards.
C20_ReadThrough ==
    (Answered /\ reply.by = "getClusterUsage" /\ redisClient = "up") =>
        /\ (seen.present /\ redisStore.present /\ seen.data.valid) =>
              /\ fetches = 0
              /\ reply.status = 200
              /\ reply.body = Unmarshal(seen.data).val
        /\ (~seen.present /\ reply.status = 200) =>
              /\ fetches > 0
              /\ redisStore.present
              /\ redisStore.data = Marshal(reply.body).val

\* C21: with the cache disabled (redisClient nil) getCachedClusterUsage
\* returns nil and setCachedClusterUsage changes nothing, Redis included, so
\* a 200 of getClusterUsage carries the aggregate computed for that request;
\* a read that ends in an error (Redis, or bytes that do not unmarshal)
\* returns nil as a miss does, and neither function ever writes a response
\* or ends the request.
C21_DisabledCacheIsInert ==
    [][/\ GetCachedClusterUsage =>
             /\ UNCHANGED <<redisStore, spc, reply, served, invoked>>
             /\ (redisClient = "nil" \/ cacheOp'.err # "none") => cached' = Miss
       /\ SetCached =>
             /\ UNCHANGED <<cached, spc, reply, served, invoked>>
             /\ redisClient = "nil" => UNCHANGED redisStore
       /\ (redisClient = "nil" /\ ClusterListAllServers /\ reply'.status = 200) =>
             /\ reply'.body = ClusterUsage(now)
             /\ fetches' = 2]_vars

\* no Redis client, an entry left in Redis by an earlier run: a request was
\* answered 200 with the aggregate of that moment, then both functions were
\* called, the read returned nil and the entry is as the request found it
C21_Witness ==
    /\ redisClient = "nil"
    /\ Answered
    /\ reply.by = "getClusterUsage"
    /\ reply.status = 200
    /\ reply.body = ClusterUsage(now)
    /\ cacheOp = [op |-> "set", err |-> "nil_client"]
    /\ cached = Miss
    /\ seen.present
    /\ redisStore = seen

\* goroutine i has made a GetMetricMeasures call, or is inside one
Fetched(i) == cpuRes[i] # NotCalled \/ memRes[i] # NotCalled \/ i \in InFlight

\* C22: a goroutine has sent to the semaphore before it checks ctx and before
\* any GetMetricMeasures call; the semaphore holds one element for each
\* goroutine between its send and its deferred receive, whichever way the
\* goroutine ends (cancelled, vcpus call failed, memory call failed, both
\* added), so no goroutine without a permit is inside a call, and once every
\* goroutine is done the semaphore is empty.
C22_PermitDiscipline ==
    /\ \A i \in TaskIds :
          /\ ctxSeen[i] # "unchecked" => tpc[i] \notin {"idle", "spawned"}
          /\ Fetched(i) => tpc[i] \notin {"idle", "spawned"}
          /\ tpc[i] \in {"idle", "spawned"} =>
                AllErrorsOf(InstanceOf(i).ID) = {}
    /\ InFlight \subseteq Holding
    /\ semaphore = Cardinality(Holding)
    /\ (\A i \in TaskIds : tpc[i] = "done") => semaphore = 0

\* two goroutines are done and the semaphore is empty: one was cancelled, the
\* other had its vcpus call and its memory call fail
C22_Witness ==
    /\ Len(targets) = 2
    /\ \A i \in TaskIds : tpc[i] = "done"
    /\ semaphore = 0
    /\ \E i, j \in TaskIds :
          /\ ctxSeen[i] = "cancelled"
          /\ cpuRes[j] = Failed
          /\ memRes[j] = Failed

\* the sets of mutexes held at the writes to the totals and to the error list
TotalsGuards == guards.cpu \cup guards.ram
AllGuards == TotalsGuards \cup guards.errors

\* C23 (as claimed): one mutex guards the two totals and the error list
\* jointly: there is a mutex that every writer of any of the three held at
\* its write.
C23_SingleLock ==
    \E l \in {"mu", "errMu"} : \A held \in AllGuards : l \in held

\* C23 (amended): the run has two mutexes: every write to totalCPUCoresUsed
\* or totalRAMUsedGB is made holding mu and not errMu, every append to
\* usageErrors holding errMu and not mu; a goroutine holds mu only around an
\* addition and errMu only around an append.
C23_LockPerVariable ==
    /\ \A held \in TotalsGuards : held = {"mu"}
    /\ \A held \in guards.errors : held = {"errMu"}
    /\ mu # 0 => tpc[mu] \in {"cpuAdd", "memAdd"}
    /\ errMu # 0 => tpc[errMu] \in {"cancelAppend", "cpuErrAppend", "memErrAppend"}
    /\ \A i \in TaskIds :
          /\ tpc[i] \in {"cpuAdd", "memAdd"} => HeldBy(i) = {"mu"}
          /\ tpc[i] \in {"cancelAppend", "cpuErrAppend", "memErrAppend"} =>
                HeldBy(i) = {"errMu"}

\* a run that added to both totals and recorded an error by a goroutine and
\* one by the resolve loop
C23_Witness ==
    /\ Responded
    /\ guards = [cpu |-> {{"mu"}}, ram |-> {{"mu"}}, errors |-> {{"errMu"}}]
    /\ response.CPUCoresUsed > 0
    /\ response.RAMUsedGB > 0
    /\ DomainErrors # {}
    /\ \E k \in 1..Len(usageErrors) : usageErrors[k].InstanceID # 0

\* the goroutines that may be suspended: waiting to send on the semaphore,
\* or inside a GetMetricMeasures call
Suspended == InFlight \cup {i \in TaskIds : tpc[i] = "spawned"}

\* the goroutines between a Lock and the Unlock that follows it
InCritical == {i \in TaskIds : HeldBy(i) # {}}

\* C24: no goroutine holds mu or errMu while it waits for a permit or is
\* inside a GetMetricMeasures call: a mutex is held only over the one
\* addition or append that follows its Lock and is released with it, before
\* the goroutine's next call or its deferred receive.
C24_NoIOUnderLock ==
    /\ Suspended \cap InCritical = {}
    /\ \A i \in InCritical :
          tpc[i] \in {"cpuAdd", "memAdd", "cancelAppend", "cpuErrAppend",
                      "memErrAppend"}
    /\ \A i \in TaskIds : tpc[i] \in {"release", "done"} => HeldBy(i) = {}
    /\ mu \in TaskIds \cup {0}
    /\ errMu \in TaskIds \cup {0}

\* one goroutine holds mu for its addition while the other is inside its
\* memory call, having made its own addition before
C24_Witness ==
    \E i, j \in TaskIds :
        /\ mu = i
        /\ tpc[i] = "cpuAdd"
        /\ tpc[j] = "memFetch"
        /\ cpuAdds[InstanceOf(j).ID] = 1

\* C25: the totals and the error list are read for the response only after
\* wg.Wait() has returned, when every dispatched goroutine is done and holds
\* no mutex; from then on no step writes to them, so the response carries
\* their final values.
C25_FrozenAfterWait ==
    [][/\ AfterWait' =>
             /\ wg' = 0
             /\ \A i \in DOMAIN tpc' : tpc'[i] = "done"
             /\ mu' = 0 /\ errMu' = 0
       /\ AfterWait =>
             UNCHANGED <<totalCPUCoresUsed, totalRAMUsedGB, usageErrors, totalVMs>>
       /\ Responded' =>
             /\ response'.CPUCoresUsed = totalCPUCoresUsed'
             /\ response'.RAMUsedGB = totalRAMUsedGB'
             /\ response'.Errors = usageErrors'
             /\ response'.TotalVMs = Len(targets')]_vars

\* two goroutines: the first had its vcpus call fail and added its memory,
\* the second added its vcpus; the response carries both totals and the one
\* error record
C25_Witness ==
    /\ Responded
    /\ Len(targets) = 2
    /\ cpuRes[1] = Failed
    /\ memAdds[InstanceOf(1).ID] = 1
    /\ cpuAdds[InstanceOf(2).ID] = 1
    /\ response.CPUCoresUsed = totalCPUCoresUsed
    /\ response.CPUCoresUsed > 0
    /\ response.RAMUsedGB > 0
    /\ Len(response.Errors) = 1

\* how far a goroutine at position p is: dispatch, the ctx check, the vcpus
\* part, the memory part, the deferred calls
Rank(p) ==
    CASE p = "idle" -> 0
      [] p = "spawned" -> 1
      [] p \in {"cancelLock", "cpuFetch"} -> 2
      [] p \in {"cancelAppend", "cpuErrLock", "cpuAddLock"} -> 3
      [] p \in {"cpuErrAppend", "cpuAdd"} -> 4
      [] p = "memFetch" -> 5
      [] p \in {"memErrLock", "memAddLock"} -> 6
      [] p \in {"memErrAppend", "memAdd"} -> 7
      [] p = "release" -> 8
      [] p = "done" -> 9

\* C26: a goroutine only moves forward through dispatch, the ctx check, the
\* vcpus part, the memory part and its deferred calls: a cancelled goroutine
\* goes from its error record to the deferred calls without a call; the
\* vcpus call is made at most once and, when made, has returned before the
\* memory call starts; the memory call is made at most once; the result of a
\* call, a failure included, is never replaced by a second call.
C26_TaskLifecycle ==
    [][\A i \in TaskIds :
          /\ tpc'[i] # tpc[i] => Rank(tpc'[i]) > Rank(tpc[i])
          /\ (tpc'[i] = "cpuFetch" /\ tpc[i] # "cpuFetch") =>
                /\ tpc[i] = "spawned"
                /\ cpuRes[i] = NotCalled /\ memRes[i] = NotCalled
          /\ (tpc'[i] = "memFetch" /\ tpc[i] # "memFetch") =>
                /\ memRes[i] = NotCalled
                /\ "vcpus" \in InstanceOf(i).Metrics => cpuRes'[i] # NotCalled
          /\ cpuRes[i] # NotCalled => cpuRes'[i] = cpuRes[i]
          /\ memRes[i] # NotCalled => memRes'[i] = memRes[i]
          /\ tpc[i] \in {"cancelLock", "cancelAppend"} =>
                /\ tpc'[i] \in {"cancelLock", "cancelAppend", "release"}
                /\ cpuRes'[i] = NotCalled /\ memRes'[i] = NotCalled]_vars

\* a goroutine is done whose vcpus call failed and whose memory call failed
\* after it: two calls and two error records, while the other goroutine was
\* cancelled before its first call
C26_Witness ==
    /\ Len(targets) = 2
    /\ \A i \in TaskIds : tpc[i] = "done"
    /\ cpuRes[1] = Failed
    /\ memRes[1] = Failed
    /\ Cardinality(AllErrorsOf(InstanceOf(1).ID)) = 2
    /\ ctxSeen[2] = "cancelled"
    /\ cpuRes[2] = NotCalled

\* C27: ctx is looked at once per goroutine, right after its send on the
\* semaphore.  A goroutine that found it live makes every call its keys ask
\* for, whether or not the deadline passes meanwhile, and its samples are
\* added; a goroutine that gets to the check after the deadline, however long
\* it waited for its permit, makes no call, adds nothing and records the one
\* cancellation error.
C27_CancellationAtStartOnly ==
    [][\A i \in TaskIds :
          /\ (ctxSeen[i] = "unchecked" /\ ctxSeen'[i] # "unchecked") =>
                /\ tpc[i] = "spawned"
                /\ ctxSeen'[i] = IF ctxErr THEN "cancelled" ELSE "live"
          /\ ctxSeen[i] # "unchecked" => ctxSeen'[i] = ctxSeen[i]
          /\ (ctxSeen'[i] = "live" /\ Finished(i)') =>
                /\ "vcpus" \in InstanceOf(i).Metrics <=> cpuRes'[i] # NotCalled
                /\ "memory" \in InstanceOf(i).Metrics <=> memRes'[i] # NotCalled
                /\ HasSample(cpuRes', i) <=> cpuAdds'[InstanceOf(i).ID] = 1
                /\ HasSample(memRes', i) <=> memAdds'[InstanceOf(i).ID] = 1
                /\ \A k \in 1..Len(usageErrors') :
                      usageErrors'[k].InstanceID = InstanceOf(i).ID =>
                          usageErrors'[k].Error # "ctx_instance"
          /\ ctxSeen'[i] = "cancelled" =>
                /\ cpuRes'[i] = NotCalled /\ memRes'[i] = NotCalled
                /\ cpuAdds'[InstanceOf(i).ID] = 0 /\ memAdds'[InstanceOf(i).ID] = 0
                /\ Finished(i)' =>
                      /\ Cardinality({k \in 1..Len(usageErrors') :
                             usageErrors'[k].InstanceID = InstanceOf(i).ID}) = 1
                      /\ \E k \in 1..Len(usageErrors') :
                             /\ usageErrors'[k].InstanceID = InstanceOf(i).ID
                             /\ usageErrors'[k].Error = "ctx_instance"]_vars

\* the first goroutine passed its check, the deadline passed, the second was
\* cancelled and recorded it; only then did the first one's vcpus call fail,
\* after which it made its memory call and added the sample to the total
C27_Witness ==
    /\ Responded
    /\ ctxSeen = <<"live", "cancelled">>
    /\ Len(usageErrors) = 2
    /\ usageErrors[1].Error = "ctx_instance"
    /\ usageErrors[2].Error = "vcpus_measures"
    /\ memAdds[InstanceOf(1).ID] = 1
    /\ response.RAMUsedGB > 0

\* the metric part of goroutine i for one kind: its key, the result of its
\* call, the additions it made and the error records of the kind
MetricPart(i, key, res, adds, msg) ==
    [present |-> key \in InstanceOf(i).Metrics,
     res |-> res[i],
     adds |-> adds[InstanceOf(i).ID],
     errors |-> Cardinality({k \in 1..Len(usageErrors) :
                    /\ usageErrors[k].InstanceID = InstanceOf(i).ID
                    /\ usageErrors[k].Error = msg})]

\* the two metric parts of the goroutines that are past them, cancelled ones
\* left out
PartsDone ==
    {MetricPart(i, "vcpus", cpuRes, cpuAdds, "vcpus_measures") :
        i \in {j \in TaskIds : ctxSeen[j] = "live" /\ Rank(tpc[j]) >= 5}}
    \cup {MetricPart(i, "memory", memRes, memAdds, "memory_measures") :
        i \in {j \in TaskIds : ctxSeen[j] = "live" /\ Rank(tpc[j]) >= 8}}

\* the step adds sample v of goroutine i to a total
AddsCpu(i) == cpuAdds'[InstanceOf(i).ID] # cpuAdds[InstanceOf(i).ID]
AddsMem(i) == memAdds'[InstanceOf(i).ID] # memAdds[InstanceOf(i).ID]

\* C28 (as claimed): a metric part whose key is present and whose call
\* returned without error has added a value to its total.
C28_SuccessContributes ==
    \A part \in PartsDone :
        (part.present /\ part.res.ok) => (part.adds = 1 /\ part.errors = 0)

\* C28 (amended): a metric part whose key is present and whose call returned
\* samples adds the value of the last one (memory: divided by 1024) to its
\* total, once, and records no error; one whose call returned no sample adds
\* nothing and records no error; one whose call failed adds nothing and
\* records exactly one error; one whose key is absent makes no call, adds
\* nothing and records no error.
C28_ContributionByOutcome ==
    [][/\ \A part \in PartsDone' :
             /\ (part.present /\ part.res.ok /\ Len(part.res.val) > 0) =>
                   (part.adds = 1 /\ part.errors = 0)
             /\ (part.present /\ part.res.ok /\ Len(part.res.val) = 0) =>
                   (part.adds = 0 /\ part.errors = 0)
             /\ (part.present /\ part.res = Failed) =>
                   (part.adds = 0 /\ part.errors = 1)
             /\ ~part.present =>
                   (part.res = NotCalled /\ part.adds = 0 /\ part.errors = 0)
             /\ part.present => part.res # NotCalled
       /\ \A i \in TaskIds :
             /\ AddsCpu(i) =>
                   /\ totalCPUCoresUsed' =
                         FloatAdd(totalCPUCoresUsed, cpuRes[i].val[Len(cpuRes[i].val)])
                   /\ UNCHANGED <<totalRAMUsedGB, usageErrors>>
             /\ AddsMem(i) =>
                   /\ totalRAMUsedGB' =
                         FloatAdd(totalRAMUsedGB,
                                  memRes[i].val[Len(memRes[i].val)] \div 1024)
                   /\ UNCHANGED <<totalCPUCoresUsed, usageErrors>>
       /\ (\A i \in TaskIds : ~AddsCpu(i)) => UNCHANGED totalCPUCoresUsed
       /\ (\A i \in TaskIds : ~AddsMem(i)) => UNCHANGED totalRAMUsedGB]_vars

\* a vcpus-only VM whose call returned 1.0, 1.5 and a memory-only VM whose
\* call returned no sample: cpu 1.5, ram 0, no error, status 200
C28_Witness ==
    /\ Responded
    /\ Len(targets) = 2
    /\ cpuRes[1] = Ok(<<1024, 1536>>)
    /\ memRes[2] = Ok(<<>>)
    /\ response.CPUCoresUsed = 1536
    /\ response.RAMUsedGB = 0
    /\ response.Errors = <<>>
    /\ status = 200

\* the iterations of the resolve loop whose call returned project p
Claimants(p) == {k \in 1..Len(domRes) : domRes[k].ok /\ p \in domRes[k].val}

\* the domain of the last of them
LastClaimant(p) ==
    domainNames[CHOOSE k \in Claimants(p) : \A j \in Claimants(p) : j <= k]

\* the iterations that recorded an error: cancelled, call failed, no project
FailedIterations ==
    {k \in 1..Len(domRes) : ~domRes[k].ok \/ domRes[k].val = {}}

\* C29: a project returned for two domains of the list is mapped to the
\* later one; the resolve loop records an error only for an iteration that
\* was cancelled, failed or returned no project, none for the duplicate; an
\* instance of the project is dispatched once, with the later domain, which
\* is the domain its error records carry.
C29_LastDomainWins ==
    /\ DOMAIN projectToDomain = {p \in Projects : Claimants(p) # {}}
    /\ \A p \in DOMAIN projectToDomain : projectToDomain[p] = LastClaimant(p)
    /\ Cardinality(DomainErrors) = Cardinality(FailedIterations)
    /\ \A i, j \in TaskIds : InstanceOf(i).ID = InstanceOf(j).ID => i = j
    /\ \A i \in TaskIds :
          targets[i].DomainName = LastClaimant(InstanceOf(i).ProjectID)
    /\ \A k \in 1..Len(usageErrors) :
          usageErrors[k].InstanceID # 0 =>
              usageErrors[k].DomainName = LastClaimant(usageErrors[k].ProjectID)

\* d1 and d2 both returned p1: the map has p1 under d2, the loop recorded no
\* error, the one VM of p1 was dispatched once and its failed vcpus call is
\* recorded under d2
C29_Witness ==
    /\ Responded
    /\ domainNames = <<"d1", "d2">>
    /\ domRes = <<Ok({"p1"}), Ok({"p1", "p2"})>>
    /\ projectToDomain["p1"] = "d2"
    /\ DomainErrors = {}
    /\ response.TotalVMs = 1
    /\ response.Errors =
          <<UsageError("d2", 1, "p1", "vcpus_measures")>>

RECURSIVE SumSeq(_)
SumSeq(l) == IF l = <<>> THEN 0 ELSE Head(l) + SumSeq(Tail(l))

\* C30 (as claimed): requests served at the same time share no variable that
\* one writes while another reads or writes it without synchronization, and
\* the total a request answers with is the sum over its own VMs.
C30_ConcurrentCallsSafe ==
    /\ \A a, b \in Requests : (a # b /\ Writing(a)) => ~Accessing(b)
    /\ \A r \in Requests :
          rreply[r].status = 200 => rreply[r].CPUCoresUsed = SumSeq(given[r])

\* the entries of the call's history that are of one kind
SentCount(op) == Cardinality({i \in 1..Len(ptrace) : ptrace[i].op = op})

\* the login of the helper that is running
OwnLogin == IF pkind = "auth" THEN "login" ELSE "loginGrafana"

\* the call has returned
Returned == ppc = "idle" /\ pcalls > 0

\* a GET is repeated only after a 401 and a login that succeeded in between,
\* and there is no third one
RetriesOnce ==
    /\ SentCount("get") <= 2
    /\ \A i, j \in 1..Len(ptrace) :
          (i < j /\ ptrace[i].op = "get" /\ ptrace[j].op = "get") =>
              /\ ptrace[i].status = 401
              /\ \E k \in (i + 1)..(j - 1) : ptrace[k].op = OwnLogin /\ ptrace[k].ok

\* nothing is sent after a failed login, after a GET that did not answer 401,
\* or after the second GET
EndsCall ==
    \A i \in 1..Len(ptrace) :
        \/ ptrace[i].op = OwnLogin /\ ~ptrace[i].ok
        \/ ptrace[i].op = "get" /\ ptrace[i].status # 401
        \/ ptrace[i].op = "get" /\ \E h \in 1..(i - 1) : ptrace[h].op = "get"
        => i = Len(ptrace) /\ Returned

\* the call returns the body of a GET answered 200, and an error otherwise
ReturnsLast ==
    Returned =>
        /\ presult.kind \in {"body", "error"}
        /\ presult.kind = "body" <=>
              ptrace # <<>> /\ ptrace[Len(ptrace)] = Sent("get", 200, TRUE)

\* C31 (as claimed): a call of doAuthGet or doGrafanaGet issues at most 2 GET
\* requests and at most 2 logins; it repeats its GET once, after a 401 and a
\* new login; a second 401, another non-200 status or a failed login ends it
\* with an error.
C31_ReauthOnce ==
    /\ SentCount("get") + SentCount("sso") <= 2
    /\ SentCount(OwnLogin) <= 2
    /\ RetriesOnce
    /\ EndsCall
    /\ ReturnsLast

\* what holds of a call of either helper at every moment
ReauthBounds ==
    /\ pkind = "auth" => SentCount("login") <= 2 /\ SentCount("sso") = 0
    /\ pkind = "grafana" =>
          /\ SentCount("loginGrafana") <= 2
          /\ SentCount("sso") <= SentCount("loginGrafana")
          /\ SentCount("login") <= 1
          /\ SentCount("get") + SentCount("sso") <= 4
    /\ (ppc = "top" /\ attempt = 1) =>
          IF pkind = "auth"
             THEN token = "" /\ cookies = <<>>
             ELSE grafanaCookies = <<>>
    /\ RetriesOnce
    /\ EndsCall
    /\ ReturnsLast

\* a GET of doGrafanaGet leaves the panel token and cookies as they are
GrafanaGetKeepsPanelLogin ==
    (/\ pkind' = "grafana"
     /\ Len(ptrace') = Len(ptrace) + 1
     /\ ptrace'[Len(ptrace')].op = "get") =>
        token' = token /\ cookies' = cookies

\* C31 (amended): doAuthGet issues at most 2 GETs and 2 panel logins, and
\* after the 401 of its first attempt it has neither token nor cookies;
\* doGrafanaGet issues at most 2 GETs of the requested URL and calls
\* loginGrafana at most twice, each call sending at most one more GET (the
\* single sign-on request) and the two together at most one panel login, and
\* after the 401 of its first attempt it has no Grafana cookies while the
\* panel token and cookies are as they were before the GET; either helper
\* repeats its GET once, after a 401 and a login that succeeded, and returns
\* an error after a failed login, a second 401, another non-200 status or no
\* answer.
C31_ReauthPerHelper ==
    [][ReauthBounds /\ ReauthBounds' /\ GrafanaGetKeepsPanelLogin]_vars

\* doAuthGet was answered 401, logged in again and was answered 200: three
\* requests, and the body returned
C31_Witness ==
    /\ Returned
    /\ pkind = "auth"
    /\ ptrace = <<Sent("get", 401, FALSE), Sent("login", 200, TRUE),
                  Sent("get", 200, TRUE)>>
    /\ presult.kind = "body"

ActiveOrShutoff(server) == server.Status \in {"ACTIVE", "SHUTOFF"}

\* the sum of one flavor field over the ACTIVE and SHUTOFF servers of a list
RECURSIVE FlavorSum(_, _)
FlavorSum(l, field) ==
    IF l = <<>> THEN 0
    ELSE (IF ActiveOrShutoff(Head(l)) THEN Head(l).Flavor[field] ELSE 0)
         + FlavorSum(Tail(l), field)

\* C32 (as claimed): the reserved vCPUs and the reserved RAM of getClusterUsage
\* are the sums of the flavors of the servers that are ACTIVE or SHUTOFF;
\* a server in any other status adds nothing.
C32_ReservedIsActiveAndShutoff ==
    figures.kind = "figures" =>
        /\ figures.ReservedVCPUs = FlavorSum(servers, "VCPUs")
        /\ figures.ReservedRAMGiB = FlavorSum(servers, "RAM")

\* C33 (as claimed): the figures of getClusterUsage satisfy FreeVCPUs =
\* TotalVCPUs - SystemVCPUs - ReservedVCPUs for every pair of answers, and
\* SystemVCPUs, SystemRAM and FreeVCPUs are never negative.
C33_FreeIsTotalLessSystemLessReserved ==
    figures.kind = "figures" =>
        /\ figures.FreeVCPUs =
              figures.TotalVCPUs - figures.SystemVCPUs - figures.ReservedVCPUs
        /\ figures.SystemVCPUs >= 0
        /\ figures.SystemRAMGiB >= 0
        /\ figures.FreeVCPUs >= 0

\* numVCPUs as the calculation uses it
VCPUsUsed == IF numVCPUs <= 0 THEN 1 ELSE numVCPUs

\* the interval that ends at sample i: its counter delta, its duration and
\* its percentage, each against sample i - 1
DeltaOf(i) == cpuMeasures[i].Value - cpuMeasures[i - 1].Value

ElapsedOf(i) == Parse(cpuMeasures[i].Timestamp) - Parse(cpuMeasures[i - 1].Timestamp)

PercentOf(i) == CPUPercent(DeltaOf(i), ElapsedOf(i), VCPUsUsed)

\* the intervals whose data point the result holds, in their order
RetainedIntervals ==
    SelectSeq([k \in 1..(Len(cpuMeasures) - 1) |-> k + 1],
              LAMBDA i : /\ DeltaOf(i) >= 0
                         /\ ElapsedOf(i) > 0
                         /\ PercentOf(i) <= MaxAllowedWithMargin)

\* every data point is the percentage of its interval against the sample
\* just before it, whether or not the interval before was discarded
AgainstPredecessor ==
    /\ Len(cpuUsage.UsageByHour) = Len(RetainedIntervals)
    /\ \A k \in 1..Len(RetainedIntervals) :
          /\ cpuUsage.UsageByHour[k].Timestamp = cpuMeasures[RetainedIntervals[k]].Timestamp
          /\ cpuUsage.UsageByHour[k].CPUPercent = PercentOf(RetainedIntervals[k])

\* the count is the number of data points, at most one per interval
CountsRetained ==
    /\ cpuUsage.TotalDataPoints = Len(cpuUsage.UsageByHour)
    /\ Len(cpuMeasures) >= 2 => cpuUsage.TotalDataPoints <= Len(cpuMeasures) - 1

\* fewer than 2 samples give the empty statistics
TooFewIsEmpty == Len(cpuMeasures) < 2 => cpuUsage = NoCPUUsage

\* the interval has a negative delta, or a percentage above 110
OutOfRange(i) == DeltaOf(i) < 0 \/ (ElapsedOf(i) > 0 /\ PercentOf(i) > Float(110))

\* C34 (as claimed): CalculateCPUUsage discards every interval whose delta is
\* negative or whose percentage is outside [0, 110], so every data point it
\* keeps has a percentage within [0, 110]; a discarded interval does not move
\* the baseline; TotalDataPoints is the number of intervals kept, at most
\* len(measures) - 1; fewer than 2 samples give empty statistics.
C34_KeepsZeroTo110 ==
    called = "CalculateCPUUsage" =>
        /\ \A i \in 2..Len(cpuMeasures) :
              OutOfRange(i) => \A k \in 1..Len(RetainedIntervals) : RetainedIntervals[k] # i
        /\ \A k \in 1..Len(cpuUsage.UsageByHour) :
              /\ cpuUsage.UsageByHour[k].CPUPercent >= 0
              /\ cpuUsage.UsageByHour[k].CPUPercent <= Float(110)
        /\ AgainstPredecessor
        /\ CountsRetained
        /\ TooFewIsEmpty

\* the samples of the memory series that fall on a date
SamplesOn(date) == SelectSeq(usageMeasures, LAMBDA m : DateKey(m.Timestamp) = date)

\* the dates of the memory series
DatesPresent == {DateKey(usageMeasures[i].Timestamp) : i \in 1..Len(usageMeasures)}

\* the percentage of one sample of the memory series
MemoryPercent(m) == FloatTimes(FloatQuot(Float(m.Value), totalMeasures[1].Value), 100)

\* the sum of a list of floats, in its order
RECURSIVE SumFloats(_)
SumFloats(l) ==
    IF l = <<>> THEN 0
    ELSE FloatSum(SumFloats(SubSeq(l, 1, Len(l) - 1)), l[Len(l)])

\* the mean of a day's samples, each taken through Of: their sum divided by
\* their number
MeanOn(date, Of(_)) ==
    LET own == SamplesOn(date)
    IN  FloatQuot(SumFloats([i \in 1..Len(own) |-> Of(own[i])]), Len(own))

UsedMB(m) == Float(m.Value)

\* C35 (as claimed): for every day of the input, the AverageUsedMB and the
\* AveragePercent that CalculateMemoryUsage reports for the day are the mean
\* of that day's own samples, also when the days have different numbers of
\* samples.
C35_DailyMeanOfOwnSamples ==
    (called = "CalculateMemoryUsage" /\ usageMeasures # <<>> /\ totalMeasures # <<>>) =>
        /\ DOMAIN memUsage.UsageByDay = DatesPresent
        /\ \A date \in DatesPresent :
              /\ memUsage.UsageByDay[date].AverageUsedMB = MeanOn(date, UsedMB)
              /\ memUsage.UsageByDay[date].AveragePercent = MeanOn(date, MemoryPercent)

\* the call of goroutine i returned without error and without a sample
NoSample(res, i) == res[i].ok /\ Len(res[i].val) = 0

\* nothing went wrong in the run but calls that returned no sample: every
\* domain resolved, no goroutine was cancelled and no call failed
OnlyEmptySeries ==
    /\ UnresolvedDomains = {}
    /\ \A i \in TaskIds :
          ctxSeen[i] = "live" /\ cpuRes[i] # Failed /\ memRes[i] # Failed
    /\ \E i \in TaskIds : NoSample(cpuRes, i) \/ NoSample(memRes, i)

\* C36: a goroutine whose call for a metric returned no sample and no error
\* records no error for the metric and adds nothing to its total; when that
\* is all that went wrong in a run, the response is a 200 with an empty error
\* list that counts the VM in total_vms, while the totals hold only the
\* samples of the calls that returned one.
C36_EmptySeriesIsSilent ==
    /\ \A i \in TaskIds :
          Finished(i) =>
              /\ NoSample(cpuRes, i) =>
                    /\ cpuAdds[InstanceOf(i).ID] = 0
                    /\ ErrorsOf(InstanceOf(i).ID, "vcpus_measures") = {}
              /\ NoSample(memRes, i) =>
                    /\ memAdds[InstanceOf(i).ID] = 0
                    /\ ErrorsOf(InstanceOf(i).ID, "memory_measures") = {}
    /\ (Responded /\ OnlyEmptySeries) =>
          /\ status = 200
          /\ response.Errors = <<>>
          /\ response.TotalVMs = Len(targets)
          /\ CpuContributors = {} => response.CPUCoresUsed = 0
          /\ MemContributors = {} => response.RAMUsedGB = 0
          /\ \A i \in TaskIds :
                /\ cpuAdds[InstanceOf(i).ID] = Count(i \in CpuContributors)
                /\ memAdds[InstanceOf(i).ID] = Count(i \in MemContributors)

\* two VMs, the vcpus call of one returned no sample and every other call
\* returned samples: 200, no error, total_vms 2, and the CPU total is the
\* 2.0 of the other VM alone
C36_Witness ==
    /\ Responded
    /\ Len(targets) = 2
    /\ \E i, j \in TaskIds :
          /\ cpuRes[i] = Ok(<<>>)
          /\ HasSample(memRes, i)
          /\ cpuRes[j] = Ok(<<2048>>)
    /\ status = 200
    /\ response.Errors = <<>>
    /\ response.TotalVMs = 2
    /\ response.CPUCoresUsed = 2048

\* the goroutines at the addition to a total, and those at an append
AtAddition == {i \in TaskIds : tpc[i] \in {"cpuAdd", "memAdd"}}
AtAppend ==
    {i \in TaskIds : tpc[i] \in {"cancelAppend", "cpuErrAppend", "memErrAppend"}}

\* the goroutines that have made their addition to the CPU total, to the RAM
\* total
CpuAdded == {i \in TaskIds : cpuAdds[InstanceOf(i).ID] = 1}
MemAdded == {i \in TaskIds : memAdds[InstanceOf(i).ID] = 1}

\* the number of appends goroutine i has made so far
AppendsDone(i) ==
    Count(ctxSeen[i] = "cancelled" /\ tpc[i] \notin {"cancelLock", "cancelAppend"})
        + Count(cpuRes[i] = Failed /\ tpc[i] \notin {"cpuErrLock", "cpuErrAppend"})
        + Count(memRes[i] = Failed /\ tpc[i] \notin {"memErrLock", "memErrAppend"})

\* C37: every write to totalCPUCoresUsed and totalRAMUsedGB is made holding
\* mu and every append to usageErrors holding errMu, those of the resolve
\* loop included; at no time are two goroutines at a write to the same
\* variable, and none is lost: at every moment of every interleaving each
\* total is the sum of the additions made so far and the error list has one
\* record per append made so far.
C37_NoLostUpdate ==
    /\ \A held \in TotalsGuards : "mu" \in held
    /\ \A held \in guards.errors : "errMu" \in held
    /\ Cardinality(AtAddition) <= 1
    /\ \A i \in AtAddition : mu = i
    /\ Cardinality(AtAppend) <= 1
    /\ \A i \in AtAppend : errMu = i
    /\ pc \in {"load", "token", "resolve", "inventory"} => mu = 0 /\ errMu = 0
    /\ totalCPUCoresUsed =
          SumOver([i \in TaskIds |-> LatestValue(cpuRes[i].val)], CpuAdded)
    /\ totalRAMUsedGB =
          SumOver([i \in TaskIds |-> MemGB(LatestValue(memRes[i].val))], MemAdded)
    /\ Len(usageErrors) =
          Cardinality(UnresolvedDomains)
              + SumOver([i \in TaskIds |-> AppendsDone(i)], TaskIds)
    /\ \A i \in TaskIds :
          Cardinality(AllErrorsOf(InstanceOf(i).ID)) = AppendsDone(i)

\* one goroutine is at its addition holding mu while the other waits for mu
\* with its sample in hand, after the resolve loop appended an error holding
\* errMu; the CPU total is still zero
C37_Witness ==
    \E i, j \in TaskIds :
        /\ tpc[i] = "cpuAdd" /\ mu = i
        /\ tpc[j] = "cpuAddLock"
        /\ DomainErrors # {}
        /\ guards.errors = {{"errMu"}}
        /\ totalCPUCoresUsed = 0

\* a step of goroutine i, whatever its calls return
GoroutineStep(i) ==
    \/ Acquire(i)
    \/ CancelLock(i) \/ CancelAppend(i)
    \/ CpuReturn(i, CpuMeasures)
    \/ CpuErrLock(i) \/ CpuErrAppend(i)
    \/ CpuAddLock(i) \/ CpuAdd(i)
    \/ MemReturn(i, MemMeasures)
    \/ MemErrLock(i) \/ MemErrAppend(i)
    \/ MemAddLock(i) \/ MemAdd(i)
    \/ Release(i)

\* goroutine i can take a step
Runnable(i) == ENABLED GoroutineStep(i)

\* the goroutines that were started and have not returned
Unfinished == {i \in TaskIds : tpc[i] \notin {"idle", "done"}}

\* the goroutines blocked in mu.Lock(), in errMu.Lock(), in the send on the
\* semaphore
WaitsForMu == {i \in TaskIds : tpc[i] \in {"cpuAddLock", "memAddLock"} /\ mu # 0}
WaitsForErrMu ==
    {i \in TaskIds :
        tpc[i] \in {"cancelLock", "cpuErrLock", "memErrLock"} /\ errMu # 0}
WaitsForPermit == {i \in TaskIds : tpc[i] = "spawned" /\ ~HasFreeSlot}

\* the goroutines that wait for a mutex or for a permit another holds
Blocked == WaitsForMu \cup WaitsForErrMu \cup WaitsForPermit

\* C38: the fan-out cannot deadlock.  No goroutine holds mu and errMu at the
\* same time, and none that waits for a permit holds a mutex.  The holder of
\* a mutex is a permit holder that can take its step; a goroutine waits for
\* a permit only while every permit is held; and whenever a goroutine is
\* blocked, every unfinished goroutine that is not blocked can take a step, a
\* permit holder among them.  So in every reachable state with unfinished
\* goroutines some goroutine can take a step.
C38_DeadlockFree ==
    /\ \A i \in TaskIds :
          /\ HeldBy(i) # {"mu", "errMu"}
          /\ tpc[i] = "spawned" => HeldBy(i) = {}
    /\ mu \in TaskIds \cup {0} /\ errMu \in TaskIds \cup {0}
    /\ mu # 0 => mu \in Holding \ Blocked /\ Runnable(mu)
    /\ errMu # 0 /\ pc = "wait" => errMu \in Holding \ Blocked /\ Runnable(errMu)
    /\ WaitsForPermit # {} => Cardinality(Holding) = SemCap
    /\ Blocked # {} =>
          /\ Holding \ Blocked # {}
          /\ \A i \in Unfinished \ Blocked : Runnable(i)
          /\ \A i \in Blocked : ~Runnable(i)
    /\ Unfinished # {} => \E i \in Unfinished : Runnable(i)

\* every permit is held and a goroutine waits for one; among the holders one
\* waits for errMu, which another holds at its append
C38_Witness ==
    /\ WaitsForPermit # {}
    /\ semaphore = SemCap
    /\ \E i, j \in Holding :
          /\ i \in WaitsForErrMu
          /\ errMu = j
          /\ tpc[j] = "cpuErrAppend"
          /\ ~Runnable(i)
          /\ Runnable(j)

====
